---- MODULE Spec2Model ----
(***************************************************************************)
(* Liberation Circuit LAN multiplayer: the peer-discovery-and-session      *)
(* protocol engine (n_network.c / n_network.h).  Every process of the LAN  *)
(* runs one engine with its own g_network context; the UDP sockets of all  *)
(* processes and the datagrams queued on them are the shared state.        *)
(***************************************************************************)
EXTENDS Integers, Sequences, FiniteSets, TLC

(***************************************************************************)
(* Program constants (n_network.h, n_network.c)                            *)
(***************************************************************************)
NETWORK_MAX_PLAYERS == 8
NETWORK_DEFAULT_PORT == 7777
NETWORK_BROADCAST_PORT == 7778
NETWORK_MAX_MESSAGE_SIZE == 1024
NETWORK_DISCOVERY_INTERVAL == 1000
NETWORK_PROTOCOL_VERSION == 1
NETWORK_MAGIC == 1279869507
INVALID_SOCKET_VALUE == -1
MAX_DISCOVERED_GAMES == 16

NETWORK_STATE_DISCONNECTED == "Disconnected"
NETWORK_STATE_HOSTING == "Hosting"
NETWORK_STATE_CONNECTING == "Connecting"
NETWORK_STATE_CONNECTED == "Connected"
NETWORK_STATE_ERROR == "Error"
network_state_t ==
    {NETWORK_STATE_DISCONNECTED, NETWORK_STATE_HOSTING, NETWORK_STATE_CONNECTING,
     NETWORK_STATE_CONNECTED, NETWORK_STATE_ERROR}

MSG_DISCOVERY_REQUEST == 1
MSG_DISCOVERY_RESPONSE == 2
MSG_JOIN_REQUEST == 3
MSG_JOIN_RESPONSE == 4
MSG_PLAYER_LIST == 5
MSG_GAME_START == 6
MSG_GAME_DATA == 7
MSG_PLAYER_DISCONNECT == 8
MSG_PING == 9
MSG_PONG == 10
MSG_CHAT == 11
MSG_GAME_STATE_SYNC == 12
MSG_TURN_DATA == 13
MSG_ERROR == 14

\* sizeof(message_header_t), packed: 4 + 2 + 2 + 4 + 4 + 4
HEADER_SIZE == 20
\* sizeof(game_info_t): 64 + 32 + 4 + 2 + 1 + 1 + 4 + 4
SIZEOF_GAME_INFO == 112
\* sizeof(uint32_t)
SIZEOF_UINT32 == 4
\* sizeof(join_data) in network_join_game and sizeof(player->name)
SIZEOF_JOIN_DATA == 64
SIZEOF_PLAYER_NAME == 32
NETWORK_MAX_GAME_NAME == 64

\* (in_addr_t)0xffffffff
INADDR_BROADCAST == -1

(***************************************************************************)
(* 32-bit unsigned values.  Timestamps and ids use all 32 bits, so they    *)
(* are kept as <<high 16 bits, low 16 bits>>; the sequence counter, the    *)
(* id counter and the statistics stay far below 2^31 in every run followed *)
(* here and are plain naturals.                                            *)
(***************************************************************************)
U8 == 2^8
U16 == 2^16
Zero32 == <<0, 0>>
\* (a - b) mod 2^32
Sub32(a, b) ==
    LET borrow == IF a[2] < b[2] THEN 1 ELSE 0
    IN  <<(a[1] - b[1] - borrow + 2 * U16) % U16, (a[2] - b[2] + U16) % U16>>
\* a > k for a small constant k < 2^16
Gt32(a, k) == a[1] > 0 \/ a[2] > k
\* the uint32_t of a natural below 2^31
U32(x) == <<x \div U16, x % U16>>

\* network byte order: the bytes of a uint16_t / uint32_t, most significant first
htons(x) == <<(x \div U8) % U8, x % U8>>
ntohs(b) == b[1] * U8 + b[2]
htonl(x) == <<x[1] \div U8, x[1] % U8, x[2] \div U8, x[2] % U8>>
ntohl(b) == <<b[1] * U8 + b[2], b[3] * U8 + b[4]>>

(***************************************************************************)
(* Bounds of the model                                                     *)
(***************************************************************************)
\* g_mp_menu.host_max_players, the "Max Players" of the host setup screen: set
\* to 4 by multiplayer_init_default_settings, drawn by the setup screen, and
\* neither changed nor passed on by multiplayer_host_start_game, which calls
\* network_host_game(host_game_name, host_port)
host_max_players == 4
\* receive failures one engine sees in SpecFaults
MaxErrors == 2
\* datagrams the LAN sends to the host of SpecChat
ChatBudget == 4
\* datagrams a foreign station sends to each process of SpecDiscovery
DiscoveryBudget == 1
\* discovery responses the LAN sends to the client of SpecRegistry
RegistryBudget == 20
\* datagrams the LAN sends to the process of SpecReject
RejectBudget == 3
\* sockets a process may hold open at a time (descriptors 3 .. 2+MaxSockets)
MaxSockets == 3
\* datagrams a socket queues before the kernel drops new ones
MaxInbox == 2
\* framed sends one engine makes through its API
MaxSeq == 4
\* datagrams the LAN sends to the engine in the general specification
LanBudget == 2
\* datagrams the LAN sends to the host in the roster specification
RosterBudget == 10
\* id generations followed in the id specification (beyond one wrap of 8 bits)
MaxIdCounter == 260

\* the processes that run the engine; process n has IP address n
Node == {1, 2}
Engine == CHOOSE n \in Node : \A m \in Node : n <= m
PeerNode == CHOOSE n \in Node : \A m \in Node : n >= m
\* a LAN station that runs no engine of ours and only emits datagrams
ForeignIp == PeerNode + 1
Fds == 3..(2 + MaxSockets)
EphemeralPorts == {49151 + i : i \in 1..MaxSockets}

\* time(NULL) values followed by the model: seconds from T0 on, and a second
\* at which (uint32_t)(time * 1000) is below 256
T0 == 17 * 10^8
\* 2027-06-08 17:36:39 UTC: (uint32_t)(TZero * 1000) = 88
TZero == 1812476 * 1000 + 199

(***************************************************************************)
(* Strings are sequences of character codes                                *)
(***************************************************************************)
Min(a, b) == IF a < b THEN a ELSE b

StrPlayer == <<80, 108, 97, 121, 101, 114>>
StrNova == <<78, 111, 118, 97>>
StrLong == [i \in 1..40 |-> 65 + (i % 26)]
StrDefaultGame == <<76, 67>>
StrArena == <<65, 114, 101, 110, 97>>

\* strncpy(dst, src, n) followed by dst[n] = '\0': the first n characters
strncpy(src, n) == SubSeq(src, 1, Min(Len(src), n))

(***************************************************************************)
(* Payloads.  A payload is the byte region after the header; it is kept    *)
(* with the C type it was written from and converted when a handler reads  *)
(* it as another type.                                                     *)
(***************************************************************************)
NoPayload == [tag |-> "none", v |-> 0]
BytesPayload(b) == [tag |-> "bytes", v |-> b]
StrPayload(s) == [tag |-> "str", v |-> s]
U32Payload(x) == [tag |-> "u32", v |-> x]
InfoPayload(gi) == [tag |-> "game_info", v |-> gi]

PayloadSize(p) ==
    CASE p.tag = "none" -> 0
      [] p.tag = "str" -> Len(p.v) + 1
      [] p.tag = "u32" -> SIZEOF_UINT32
      [] p.tag = "game_info" -> SIZEOF_GAME_INFO
      [] p.tag = "bytes" -> Len(p.v)

\* little-endian bytes of a uint32_t, as memcpy writes them
U32Bytes(x) == <<x[2] % U8, x[2] \div U8, x[1] % U8, x[1] \div U8>>

PayloadBytes(p) ==
    CASE p.tag = "none" -> <<>>
      [] p.tag = "str" -> p.v \o <<0>>
      [] p.tag = "u32" -> U32Bytes(p.v)
      [] p.tag = "game_info" -> p.v.game_name \o <<0>>
      [] p.tag = "bytes" -> p.v

\* the C string a (const char*) cast of the payload reads: bytes before the first NUL
CStringOfBytes(b) ==
    LET nul == {i \in 1..Len(b) : b[i] = 0}
    IN  IF nul = {} THEN b
        ELSE SubSeq(b, 1, (CHOOSE i \in nul : \A j \in nul : i <= j) - 1)

\* a copy that leaves out the last byte
PayloadPrefixShort(p, k) ==
    IF k = 0 THEN p
    ELSE BytesPayload(SubSeq(PayloadBytes(p), 1, Min(k, PayloadSize(p)) - 1))

\* memcpy(data, buffer + sizeof(header), k): the first k bytes of the payload region
PayloadPrefix(p, k) ==
    IF k = PayloadSize(p) THEN p
    ELSE BytesPayload(SubSeq(PayloadBytes(p), 1, Min(k, PayloadSize(p))))

\* *(uint32_t*)data on a payload of 4 bytes
PayloadAsU32(p) ==
    LET b == PayloadBytes(p)
    IN  <<b[3] + b[4] * U8, b[1] + b[2] * U8>>

(***************************************************************************)
(* Clock and id generation                                                 *)
(***************************************************************************)
\* (uint32_t)(time(NULL) * 1000)
get_timestamp(t) ==
    LET low == (t % U16) * 1000
    IN  <<((t \div U16) * 1000 + low \div U16) % U16, low % U16>>

\* x & 0xFFFFFF00 and x & 0xFF on 32-bit values
AndFFFFFF00(x) == <<x[1], (x[2] \div U8) * U8>>
AndFF(x) == x % U8

\* (get_timestamp() & 0xFFFFFF00) | (counter++ & 0xFF): the id returned
network_generate_player_id(t, counter) ==
    <<AndFFFFFF00(get_timestamp(t))[1], AndFFFFFF00(get_timestamp(t))[2] + AndFF(counter)>>

network_generate_game_id(t) == get_timestamp(t)

(***************************************************************************)
(* State                                                                   *)
(***************************************************************************)
VARIABLES
    g,          \* g[n]: the g_network context of process n
    id_counter, \* id_counter[n]: the static counter of _network_generate_player_id
    callbacks,  \* callbacks[n]: the handlers registered in g_network_callbacks
    sockets,    \* sockets[n][fd]: the kernel's view of descriptor fd of process n
    now,        \* time(NULL), in seconds
    last,       \* the call made by the last step: operation, process, result
    trace,      \* what the last step did outside the context: sendto, close, callbacks
    g_mp_menu   \* the multiplayer menu context of process Engine

vars == <<g, id_counter, callbacks, sockets, now, last, trace, g_mp_menu>>

CallbackNames == {"on_player_joined", "on_player_left", "on_game_data", "on_chat", "on_error"}

SockClosed == [open |-> FALSE, port |-> 0, inbox |-> <<>>]

\* the context after memset(0) and the assignments of network_init
InitContext(t, counter) ==
    [state |-> NETWORK_STATE_DISCONNECTED,
     server_socket |-> INVALID_SOCKET_VALUE,
     broadcast_socket |-> INVALID_SOCKET_VALUE,
     local_port |-> NETWORK_DEFAULT_PORT,
     players |-> <<>>,
     local_player_id |-> network_generate_player_id(t, counter),
     game_name |-> StrDefaultGame,
     game_id |-> network_generate_game_id(t),
     is_host |-> 0,
     discovered_games |-> <<>>,
     last_discovery_time |-> Zero32,
     next_sequence |-> 1,
     bytes_sent |-> 0,
     bytes_received |-> 0,
     messages_sent |-> 0,
     messages_received |-> 0,
     errors |-> 0]

\* player_count is the length of the players sequence
player_count(ctx) == Len(ctx.players)
discovered_game_count(ctx) == Len(ctx.discovered_games)

(***************************************************************************)
(* A handler runs on a "world": the context of the calling process, its    *)
(* id counter, every socket of the LAN, the trace of what it did so far    *)
(* and the result of the last helper it called.                            *)
(***************************************************************************)
\* K applied to the value of x: the statements after a call work on its result
Then(x, K(_)) == CHOOSE r \in {K(v) : v \in {x}} : TRUE

\* What the kernel and the network answer during one call:
\*   fails   - the sendto calls of this step (1st, 2nd, ...) that do not transmit
\*   eph     - the port an unbound socket is bound to by its first sendto
\*   rxfault - the sockets ("server", "broadcast") whose recvfrom fails with a real error
\*   kfail   - the set-up call that fails: [call, k] with call "socket", "nonblock",
\*             "bind" on the k-th socket the operation creates, or "resolve"; "none"
\*   errno   - the value errno holds from earlier calls when a call that succeeds
\*             leaves it alone
\*   stale   - the bytes other than NUL that message_data, a local array left
\*             uninitialized, holds right after the payload copied into it
NoFault == [call |-> "none", k |-> 0]
Env(fails, eph, rxfault, kfail) ==
    [fails |-> fails, eph |-> eph, rxfault |-> rxfault, kfail |-> kfail,
     errno |-> "EWOULDBLOCK", stale |-> <<>>]
WithErrno(env, e) == [env EXCEPT !.errno = e]
WithStale(env, t) == [env EXCEPT !.stale = t]

World(n, env) ==
    [ctx |-> g[n], counter |-> id_counter[n], net |-> sockets, trace |-> <<>>,
     ret |-> 0,
     rx |-> [type |-> 0, size |-> 0, data |-> NoPayload, from_ip |-> 0, from_port |-> 0],
     cbs |-> callbacks[n], env |-> env]

\* the C string a handler reads at data: the payload up to its first NUL, and
\* past its end when it holds none
ReadString(w) == CStringOfBytes(PayloadBytes(w.rx.data) \o w.env.stale)

IsOpen(net, n, fd) == fd \in Fds /\ net[n][fd].open

(***************************************************************************)
(* Sockets                                                                 *)
(***************************************************************************)
FreeFds(net, n) == {fd \in Fds : ~net[n][fd].open}
LowestFreeFd(net, n) == CHOOSE fd \in FreeFds(net, n) : \A o \in FreeFds(net, n) : fd <= o

\* CLOSE_SOCKET(fd)
CloseSocket(w, n, fd) ==
    [w EXCEPT !.net = IF IsOpen(w.net, n, fd)
                      THEN [w.net EXCEPT ![n][fd] = SockClosed] ELSE w.net,
              !.trace = Append(w.trace, [op |-> "close", fd |-> fd])]

KFails(w, call, k) == w.env.kfail = [call |-> call, k |-> k]

\* _network_create_socket(&g_network.<field>, SOCK_DGRAM), the k-th socket the
\* calling operation creates; *sock is written before the result is known
network_create_socket(w, n, field, k) ==
    IF KFails(w, "socket", k) \/ FreeFds(w.net, n) = {}
    THEN [w EXCEPT !.ctx = [w.ctx EXCEPT ![field] = INVALID_SOCKET_VALUE], !.ret = 0]
    ELSE LET fd == LowestFreeFd(w.net, n)
         IN  [w EXCEPT !.ctx = [w.ctx EXCEPT ![field] = fd],
                       !.net = [w.net EXCEPT ![n][fd] = [open |-> TRUE, port |-> 0, inbox |-> <<>>]],
                       !.ret = IF KFails(w, "nonblock", k) THEN 0 ELSE 1]

\* _network_bind_socket(sock, port) on the k-th socket of the operation
network_bind_socket(w, n, fd, port, k) ==
    IF ~KFails(w, "bind", k) /\ IsOpen(w.net, n, fd)
    THEN [w EXCEPT !.net = [w.net EXCEPT ![n][fd].port = port], !.ret = 1]
    ELSE [w EXCEPT !.ret = 0]

(***************************************************************************)
(* Transport: one datagram                                                 *)
(***************************************************************************)
\* a datagram as it is on the wire: the fields of message_header_t in network
\* byte order, then the payload; received is what recvfrom returns for it
Datagram(src_ip, src_port, type, payload, sequence, timestamp) ==
    [src_ip |-> src_ip, src_port |-> src_port,
     received |-> HEADER_SIZE + PayloadSize(payload),
     magic |-> htonl(U32(NETWORK_MAGIC)),
     version |-> htons(NETWORK_PROTOCOL_VERSION),
     type |-> htons(type % U16),
     size |-> htonl(U32(PayloadSize(payload))),
     sequence |-> htonl(U32(sequence)),
     timestamp |-> htonl(timestamp),
     payload |-> payload]

\* the sockets a datagram for ip:port is queued on (a full queue drops it)
Deliver(net, ip, port, d) ==
    [m \in Node |->
        [fd \in Fds |->
            IF /\ (ip = m \/ ip = INADDR_BROADCAST)
               /\ net[m][fd].open /\ net[m][fd].port = port
               /\ Len(net[m][fd].inbox) < MaxInbox
            THEN [net[m][fd] EXCEPT !.inbox = Append(@, d)]
            ELSE net[m][fd]]]

SendtoCount(tr) == Len(SelectSeq(tr, LAMBDA e : e.op = "sendto"))

\* a send that counts the message before it knows sendto's result
network_send_message_counts_attempts(w, n, sock, ip, port, type, payload) ==
    IF PayloadSize(payload) > NETWORK_MAX_MESSAGE_SIZE
    THEN [w EXCEPT !.ret = 0]
    ELSE LET seq == w.ctx.next_sequence
             c1 == [w.ctx EXCEPT !.next_sequence = @ + 1]
             total == HEADER_SIZE + PayloadSize(payload)
             sent == (SendtoCount(w.trace) + 1) \notin w.env.fails /\ IsOpen(w.net, n, sock)
             bound == IF sent /\ w.net[n][sock].port = 0
                      THEN [w.net EXCEPT ![n][sock].port = w.env.eph] ELSE w.net
             d == Datagram(n, bound[n][sock].port, type, payload, seq, get_timestamp(now))
             ev == [op |-> "sendto", fd |-> sock, ip |-> ip, port |-> port,
                    type |-> type, payload |-> payload, sequence |-> seq, sent |-> sent]
         IN  IF sent
             THEN [w EXCEPT !.ctx = [c1 EXCEPT !.bytes_sent = @ + total,
                                               !.messages_sent = @ + 1],
                            !.net = Deliver(bound, ip, port, d),
                            !.trace = Append(w.trace, ev),
                            !.ret = 1]
             ELSE [w EXCEPT !.ctx = [c1 EXCEPT !.errors = @ + 1, !.messages_sent = @ + 1],
                            !.trace = Append(w.trace, ev),
                            !.ret = 0]

\* a send that consumes a sequence number only when sendto succeeds
network_send_message_numbers_successes(w, n, sock, ip, port, type, payload) ==
    IF PayloadSize(payload) > NETWORK_MAX_MESSAGE_SIZE
    THEN [w EXCEPT !.ret = 0]
    ELSE LET seq == w.ctx.next_sequence
             c1 == [w.ctx EXCEPT !.next_sequence = @ + 1]
             total == HEADER_SIZE + PayloadSize(payload)
             sent == (SendtoCount(w.trace) + 1) \notin w.env.fails /\ IsOpen(w.net, n, sock)
             bound == IF sent /\ w.net[n][sock].port = 0
                      THEN [w.net EXCEPT ![n][sock].port = w.env.eph] ELSE w.net
             d == Datagram(n, bound[n][sock].port, type, payload, seq, get_timestamp(now))
             ev == [op |-> "sendto", fd |-> sock, ip |-> ip, port |-> port,
                    type |-> type, payload |-> payload, sequence |-> seq, sent |-> sent]
         IN  IF sent
             THEN [w EXCEPT !.ctx = [c1 EXCEPT !.bytes_sent = @ + total,
                                               !.messages_sent = @ + 1],
                            !.net = Deliver(bound, ip, port, d),
                            !.trace = Append(w.trace, ev),
                            !.ret = 1]
             ELSE [w EXCEPT !.ctx = [w.ctx EXCEPT !.errors = @ + 1],
                            !.trace = Append(w.trace, ev),
                            !.ret = 0]

\* _network_send_message(sock, addr, type, data, size)
network_send_message(w, n, sock, ip, port, type, payload) ==
    IF PayloadSize(payload) > NETWORK_MAX_MESSAGE_SIZE
    THEN [w EXCEPT !.ret = 0]
    ELSE LET seq == w.ctx.next_sequence
             c1 == [w.ctx EXCEPT !.next_sequence = @ + 1]
             total == HEADER_SIZE + PayloadSize(payload)
             sent == (SendtoCount(w.trace) + 1) \notin w.env.fails /\ IsOpen(w.net, n, sock)
             bound == IF sent /\ w.net[n][sock].port = 0
                      THEN [w.net EXCEPT ![n][sock].port = w.env.eph] ELSE w.net
             d == Datagram(n, bound[n][sock].port, type, payload, seq, get_timestamp(now))
             ev == [op |-> "sendto", fd |-> sock, ip |-> ip, port |-> port,
                    type |-> type, payload |-> payload, sequence |-> seq, sent |-> sent]
         IN  IF sent
             THEN [w EXCEPT !.ctx = [c1 EXCEPT !.bytes_sent = @ + total,
                                               !.messages_sent = @ + 1],
                            !.net = Deliver(bound, ip, port, d),
                            !.trace = Append(w.trace, ev),
                            !.ret = 1]
             ELSE [w EXCEPT !.ctx = [c1 EXCEPT !.errors = @ + 1],
                            !.trace = Append(w.trace, ev),
                            !.ret = 0]

\* a receive that counts an empty queue as an error
network_receive_message_idle_is_error(w, n, sock, which) ==
    LET err == [w EXCEPT !.ctx = [w.ctx EXCEPT !.errors = @ + 1], !.ret = -1]
    IN  IF which \in w.env.rxfault \/ ~IsOpen(w.net, n, sock) THEN err
        ELSE IF w.net[n][sock].inbox = <<>> THEN err
        ELSE LET d == Head(w.net[n][sock].inbox)
                 popped == [w.net EXCEPT ![n][sock].inbox = Tail(@)]
                 e == [err EXCEPT !.net = popped]
             IN  IF d.received <= 0
                 THEN IF w.env.errno = "EWOULDBLOCK"
                      THEN [w EXCEPT !.net = popped, !.ret = 0]
                      ELSE e
                 ELSE IF d.received < HEADER_SIZE THEN e
                 ELSE IF ntohl(d.magic) # U32(NETWORK_MAGIC) THEN e
                 ELSE IF ntohs(d.version) # NETWORK_PROTOCOL_VERSION THEN e
                 ELSE IF Gt32(ntohl(d.size), NETWORK_MAX_MESSAGE_SIZE)
                         \/ d.received # HEADER_SIZE + ntohl(d.size)[2] THEN e
                 ELSE [w EXCEPT !.net = popped,
                                !.ctx = [w.ctx EXCEPT !.bytes_received = @ + d.received,
                                                      !.messages_received = @ + 1],
                                !.rx = [type |-> ntohs(d.type),
                                        size |-> ntohl(d.size)[2],
                                        data |-> PayloadPrefix(d.payload, ntohl(d.size)[2]),
                                        from_ip |-> d.src_ip, from_port |-> d.src_port],
                                !.ret = 1]

\* _network_receive_message(sock, &from_addr, &type, data, &size); which names the
\* socket read ("server" or "broadcast")
network_receive_message(w, n, sock, which) ==
    LET err == [w EXCEPT !.ctx = [w.ctx EXCEPT !.errors = @ + 1], !.ret = -1]
    IN  IF which \in w.env.rxfault \/ ~IsOpen(w.net, n, sock) THEN err
        ELSE IF w.net[n][sock].inbox = <<>> THEN [w EXCEPT !.ret = 0]
        ELSE LET d == Head(w.net[n][sock].inbox)
                 popped == [w.net EXCEPT ![n][sock].inbox = Tail(@)]
                 e == [err EXCEPT !.net = popped]
             IN  IF d.received <= 0
                 THEN IF w.env.errno = "EWOULDBLOCK"
                      THEN [w EXCEPT !.net = popped, !.ret = 0]
                      ELSE e
                 ELSE IF d.received < HEADER_SIZE THEN e
                 ELSE IF ntohl(d.magic) # U32(NETWORK_MAGIC) THEN e
                 ELSE IF ntohs(d.version) # NETWORK_PROTOCOL_VERSION THEN e
                 ELSE IF Gt32(ntohl(d.size), NETWORK_MAX_MESSAGE_SIZE)
                         \/ d.received # HEADER_SIZE + ntohl(d.size)[2] THEN e
                 ELSE [w EXCEPT !.net = popped,
                                !.ctx = [w.ctx EXCEPT !.bytes_received = @ + d.received,
                                                      !.messages_received = @ + 1],
                                !.rx = [type |-> ntohs(d.type),
                                        size |-> ntohl(d.size)[2],
                                        data |-> PayloadPrefix(d.payload, ntohl(d.size)[2]),
                                        from_ip |-> d.src_ip, from_port |-> d.src_port],
                                !.ret = 1]

(***************************************************************************)
(* Roster lookups                                                          *)
(***************************************************************************)
\* indices of the roster entries whose address and port equal the sender's
MatchingPlayers(players, ip, port) ==
    {i \in 1..Len(players) : players[i].ip_address = ip /\ players[i].port = port}

\* the index the for loop stops at, 0 when it runs to the end
FirstMatch(players, ip, port) ==
    IF MatchingPlayers(players, ip, port) = {} THEN 0
    ELSE CHOOSE i \in MatchingPlayers(players, ip, port) :
            \A j \in MatchingPlayers(players, ip, port) : i <= j

\* a removal that fills the hole with the last entry
RemoveAtSwapLast(players, i) ==
    [j \in 1..(Len(players) - 1) |-> IF j = i THEN players[Len(players)] ELSE players[j]]

\* players[j] = players[j + 1] for j >= i, player_count--
RemoveAt(players, i) ==
    [j \in 1..(Len(players) - 1) |-> IF j < i THEN players[j] ELSE players[j + 1]]

\* the sender id the MSG_GAME_DATA and MSG_CHAT cases compute
SenderId(players, ip, port) ==
    IF FirstMatch(players, ip, port) = 0 THEN Zero32
    ELSE players[FirstMatch(players, ip, port)].player_id

Fire(w, n, ev) ==
    IF ev.op \in w.cbs THEN [w EXCEPT !.trace = Append(w.trace, ev)] ELSE w

\* network_get_local_ip(): process n has address n
network_get_local_ip(n) == n

(***************************************************************************)
(* Dispatcher: _network_handle_message(from_addr, type, data, size) on the  *)
(* message left in w.rx by the receive                                     *)
(***************************************************************************)
\* a discovery-request handler that replies in every state
HandleDiscoveryRequestAnyState(w, n) ==
    LET game_info == [game_name |-> w.ctx.game_name,
                      host_ip |-> network_get_local_ip(n),
                      host_port |-> w.ctx.local_port,
                      current_players |-> player_count(w.ctx) % U8,
                      max_players |-> NETWORK_MAX_PLAYERS,
                      game_id |-> w.ctx.game_id,
                      last_seen |-> Zero32]
    IN  network_send_message(w, n, w.ctx.broadcast_socket, w.rx.from_ip, w.rx.from_port,
                             MSG_DISCOVERY_RESPONSE, InfoPayload(game_info))

HandleDiscoveryRequest(w, n) ==
    IF w.ctx.is_host # 0 /\ w.ctx.state = NETWORK_STATE_HOSTING
    THEN LET game_info == [game_name |-> w.ctx.game_name,
                           host_ip |-> network_get_local_ip(n),
                           host_port |-> w.ctx.local_port,
                           current_players |-> player_count(w.ctx) % U8,
                           max_players |-> NETWORK_MAX_PLAYERS,
                           game_id |-> w.ctx.game_id,
                           last_seen |-> Zero32]
         IN  network_send_message(w, n, w.ctx.broadcast_socket, w.rx.from_ip, w.rx.from_port,
                                  MSG_DISCOVERY_RESPONSE, InfoPayload(game_info))
    ELSE w

\* the list after the found/not-found update with entry gi
UpdateDiscovered(games, gi) ==
    LET same == {i \in 1..Len(games) : games[i].game_id = gi.game_id}
    IN  IF same = {} THEN Append(games, gi)
        ELSE [games EXCEPT ![CHOOSE i \in same : \A j \in same : i <= j] = gi]

HandleDiscoveryResponse(w, n) ==
    IF PayloadSize(w.rx.data) = SIZEOF_GAME_INFO
       /\ discovered_game_count(w.ctx) < MAX_DISCOVERED_GAMES
    THEN LET gi == [w.rx.data.v EXCEPT !.last_seen = get_timestamp(now)]
         IN  [w EXCEPT !.ctx.discovered_games = UpdateDiscovered(@, gi)]
    ELSE w

\* sprintf(player->name, "Player%d", k) for k in 1..8
DefaultPlayerName(k) == StrPlayer \o <<48 + k>>

\* a join-request handler that does not look at the role
HandleJoinRequestAnyRole(w, n) ==
    IF player_count(w.ctx) < NETWORK_MAX_PLAYERS
    THEN Then([player_id |-> network_generate_player_id(now, w.counter),
               ip_address |-> w.rx.from_ip, port |-> w.rx.from_port,
               connected |-> 1, last_ping |-> get_timestamp(now),
               name |-> IF PayloadSize(w.rx.data) > 0
                        THEN strncpy(ReadString(w), SIZEOF_PLAYER_NAME - 1)
                        ELSE DefaultPlayerName(player_count(w.ctx) + 1)], LAMBDA player :
         Then([w EXCEPT !.counter = @ + 1, !.ctx.players = Append(@, player)], LAMBDA w1 :
         Then(network_send_message(w1, n, w1.ctx.server_socket, w1.rx.from_ip, w1.rx.from_port,
                                   MSG_JOIN_RESPONSE, U32Payload(player.player_id)), LAMBDA w2 :
              Fire(w2, n, [op |-> "on_player_joined", id |-> player.player_id,
                           name |-> player.name]))))
    ELSE w

\* a join-request handler that admits a peer while the roster holds 8
HandleJoinRequestOneMore(w, n) ==
    IF w.ctx.is_host # 0 /\ player_count(w.ctx) <= NETWORK_MAX_PLAYERS
    THEN Then([player_id |-> network_generate_player_id(now, w.counter),
               ip_address |-> w.rx.from_ip, port |-> w.rx.from_port,
               connected |-> 1, last_ping |-> get_timestamp(now),
               name |-> IF PayloadSize(w.rx.data) > 0
                        THEN strncpy(ReadString(w), SIZEOF_PLAYER_NAME - 1)
                        ELSE DefaultPlayerName(player_count(w.ctx) + 1)], LAMBDA player :
         Then([w EXCEPT !.counter = @ + 1, !.ctx.players = Append(@, player)], LAMBDA w1 :
         Then(network_send_message(w1, n, w1.ctx.server_socket, w1.rx.from_ip, w1.rx.from_port,
                                   MSG_JOIN_RESPONSE, U32Payload(player.player_id)), LAMBDA w2 :
              Fire(w2, n, [op |-> "on_player_joined", id |-> player.player_id,
                           name |-> player.name]))))
    ELSE w

HandleJoinRequest(w, n) ==
    IF w.ctx.is_host # 0 /\ player_count(w.ctx) < NETWORK_MAX_PLAYERS
    THEN Then([player_id |-> network_generate_player_id(now, w.counter),
               ip_address |-> w.rx.from_ip,
               port |-> w.rx.from_port,
               connected |-> 1,
               last_ping |-> get_timestamp(now),
               name |-> IF PayloadSize(w.rx.data) > 0
                        THEN strncpy(ReadString(w), SIZEOF_PLAYER_NAME - 1)
                        ELSE DefaultPlayerName(player_count(w.ctx) + 1)], LAMBDA player :
         Then([w EXCEPT !.counter = @ + 1, !.ctx.players = Append(@, player)], LAMBDA w1 :
         Then(network_send_message(w1, n, w1.ctx.server_socket, w1.rx.from_ip, w1.rx.from_port,
                                   MSG_JOIN_RESPONSE, U32Payload(player.player_id)), LAMBDA w2 :
              Fire(w2, n, [op |-> "on_player_joined", id |-> player.player_id,
                           name |-> player.name]))))
    ELSE w

\* a join-response handler that records the id and leaves the state alone
HandleJoinResponseKeepState(w, n) ==
    IF w.ctx.state = NETWORK_STATE_CONNECTING /\ PayloadSize(w.rx.data) = SIZEOF_UINT32
    THEN [w EXCEPT !.ctx.local_player_id = PayloadAsU32(w.rx.data)]
    ELSE w

\* a join-response handler that does not look at the state
HandleJoinResponseAnyState(w, n) ==
    IF PayloadSize(w.rx.data) = SIZEOF_UINT32
    THEN [w EXCEPT !.ctx.local_player_id = PayloadAsU32(w.rx.data),
                   !.ctx.state = NETWORK_STATE_CONNECTED]
    ELSE w

\* a join-response handler that also accepts a new id once Connected
HandleJoinResponseWhenConnected(w, n) ==
    IF /\ w.ctx.state \in {NETWORK_STATE_CONNECTING, NETWORK_STATE_CONNECTED}
       /\ PayloadSize(w.rx.data) = SIZEOF_UINT32
    THEN [w EXCEPT !.ctx.local_player_id = PayloadAsU32(w.rx.data),
                   !.ctx.state = NETWORK_STATE_CONNECTED]
    ELSE w

HandleJoinResponse(w, n) ==
    IF w.ctx.state = NETWORK_STATE_CONNECTING /\ PayloadSize(w.rx.data) = SIZEOF_UINT32
    THEN [w EXCEPT !.ctx.local_player_id = PayloadAsU32(w.rx.data),
                   !.ctx.state = NETWORK_STATE_CONNECTED]
    ELSE w

HandleGameData(w, n) ==
    Fire(w, n, [op |-> "on_game_data",
                id |-> SenderId(w.ctx.players, w.rx.from_ip, w.rx.from_port),
                data |-> w.rx.data, size |-> w.rx.size])

HandleChat(w, n) ==
    IF PayloadSize(w.rx.data) > 0
    THEN Fire(w, n, [op |-> "on_chat",
                     id |-> SenderId(w.ctx.players, w.rx.from_ip, w.rx.from_port),
                     message |-> ReadString(w)])
    ELSE w

\* a disconnect handler that removes the player only when it can notify
HandlePlayerDisconnectIfNotified(w, n) ==
    LET i == FirstMatch(w.ctx.players, w.rx.from_ip, w.rx.from_port)
    IN  IF i = 0 \/ "on_player_left" \notin w.cbs THEN w
        ELSE LET w1 == Fire(w, n, [op |-> "on_player_left",
                                   id |-> w.ctx.players[i].player_id,
                                   count |-> player_count(w.ctx)])
             IN  [w1 EXCEPT !.ctx.players = RemoveAt(@, i)]

\* a disconnect handler that ends the session of a client
HandlePlayerDisconnectEndsSession(w, n) ==
    IF w.ctx.is_host = 0 THEN [w EXCEPT !.ctx.state = NETWORK_STATE_DISCONNECTED]
    ELSE
    LET i == FirstMatch(w.ctx.players, w.rx.from_ip, w.rx.from_port)
    IN  IF i = 0 THEN w
        ELSE LET w1 == Fire(w, n, [op |-> "on_player_left",
                                   id |-> w.ctx.players[i].player_id,
                                   count |-> player_count(w.ctx)])
             IN  [w1 EXCEPT !.ctx.players = RemoveAt(@, i)]

HandlePlayerDisconnect(w, n) ==
    LET i == FirstMatch(w.ctx.players, w.rx.from_ip, w.rx.from_port)
    IN  IF i = 0 THEN w
        ELSE LET w1 == Fire(w, n, [op |-> "on_player_left",
                                   id |-> w.ctx.players[i].player_id,
                                   count |-> player_count(w.ctx)])
             IN  [w1 EXCEPT !.ctx.players = RemoveAt(@, i)]

\* a dispatch that hands game-state-sync and turn-data to the game data handler
network_handle_message_with_sync(w, n) ==
    Then([w EXCEPT !.trace = Append(@, [op |-> "dispatch", type |-> w.rx.type,
                                       ip |-> w.rx.from_ip, port |-> w.rx.from_port,
                                       data |-> w.rx.data])], LAMBDA w0 :
        CASE w.rx.type = MSG_DISCOVERY_REQUEST -> HandleDiscoveryRequest(w0, n)
          [] w.rx.type = MSG_DISCOVERY_RESPONSE -> HandleDiscoveryResponse(w0, n)
          [] w.rx.type = MSG_JOIN_REQUEST -> HandleJoinRequest(w0, n)
          [] w.rx.type = MSG_JOIN_RESPONSE -> HandleJoinResponse(w0, n)
          [] w.rx.type \in {MSG_GAME_DATA, MSG_GAME_STATE_SYNC, MSG_TURN_DATA} ->
                HandleGameData(w0, n)
          [] w.rx.type = MSG_CHAT -> HandleChat(w0, n)
          [] w.rx.type = MSG_PLAYER_DISCONNECT -> HandlePlayerDisconnect(w0, n)
          [] OTHER -> w0)

network_handle_message(w, n) ==
    Then([w EXCEPT !.trace = Append(@, [op |-> "dispatch", type |-> w.rx.type,
                                       ip |-> w.rx.from_ip, port |-> w.rx.from_port,
                                       data |-> w.rx.data])], LAMBDA w0 :
        CASE w.rx.type = MSG_DISCOVERY_REQUEST -> HandleDiscoveryRequest(w0, n)
          [] w.rx.type = MSG_DISCOVERY_RESPONSE -> HandleDiscoveryResponse(w0, n)
          [] w.rx.type = MSG_JOIN_REQUEST -> HandleJoinRequest(w0, n)
          [] w.rx.type = MSG_JOIN_RESPONSE -> HandleJoinResponse(w0, n)
          [] w.rx.type = MSG_GAME_DATA -> HandleGameData(w0, n)
          [] w.rx.type = MSG_CHAT -> HandleChat(w0, n)
          [] w.rx.type = MSG_PLAYER_DISCONNECT -> HandlePlayerDisconnect(w0, n)
          [] OTHER -> w0)

(***************************************************************************)
(* Public API                                                              *)
(***************************************************************************)
\* network_broadcast_discovery()
network_broadcast_discovery(w, n) ==
    IF w.ctx.broadcast_socket = INVALID_SOCKET_VALUE THEN [w EXCEPT !.ret = 0]
    ELSE network_send_message(w, n, w.ctx.broadcast_socket, INADDR_BROADCAST,
                              NETWORK_BROADCAST_PORT, MSG_DISCOVERY_REQUEST, NoPayload)

\* the receive-and-dispatch of one socket in network_update
PollSocket(w, n, sock, which) ==
    IF sock = INVALID_SOCKET_VALUE THEN w
    ELSE Then(network_receive_message(w, n, sock, which),
              LAMBDA r : IF r.ret > 0 THEN network_handle_message(r, n) ELSE r)

\* an update that polls the session socket a second time
network_update_polls_twice(w, n) ==
    IF w.ctx.state = NETWORK_STATE_DISCONNECTED THEN w
    ELSE Then(PollSocket(w, n, w.ctx.server_socket, "server"), LAMBDA w0 :
         Then(PollSocket(w0, n, w0.ctx.server_socket, "server"), LAMBDA w1 :
         Then(PollSocket(w1, n, w1.ctx.broadcast_socket, "broadcast"), LAMBDA w2 :
             IF /\ w2.ctx.broadcast_socket # INVALID_SOCKET_VALUE
                /\ w2.ctx.is_host = 0
                /\ Gt32(Sub32(get_timestamp(now), w2.ctx.last_discovery_time),
                        NETWORK_DISCOVERY_INTERVAL)
             THEN [network_broadcast_discovery(w2, n)
                      EXCEPT !.ctx.last_discovery_time = get_timestamp(now)]
             ELSE w2)))

\* an update that polls whatever the session state is
network_update_any_state(w, n) ==
    Then(PollSocket(w, n, w.ctx.server_socket, "server"), LAMBDA w1 :
    Then(PollSocket(w1, n, w1.ctx.broadcast_socket, "broadcast"), LAMBDA w2 :
        IF /\ w2.ctx.broadcast_socket # INVALID_SOCKET_VALUE
           /\ w2.ctx.is_host = 0
           /\ Gt32(Sub32(get_timestamp(now), w2.ctx.last_discovery_time),
                   NETWORK_DISCOVERY_INTERVAL)
        THEN [network_broadcast_discovery(w2, n)
                 EXCEPT !.ctx.last_discovery_time = get_timestamp(now)]
        ELSE w2))

\* network_update()
network_update(w, n) ==
    IF w.ctx.state = NETWORK_STATE_DISCONNECTED THEN w
    ELSE Then(PollSocket(w, n, w.ctx.server_socket, "server"), LAMBDA w1 :
         Then(PollSocket(w1, n, w1.ctx.broadcast_socket, "broadcast"), LAMBDA w2 :
             IF /\ w2.ctx.broadcast_socket # INVALID_SOCKET_VALUE
                /\ w2.ctx.is_host = 0
                /\ Gt32(Sub32(get_timestamp(now), w2.ctx.last_discovery_time),
                        NETWORK_DISCOVERY_INTERVAL)
             THEN [network_broadcast_discovery(w2, n)
                      EXCEPT !.ctx.last_discovery_time = get_timestamp(now)]
             ELSE w2))

\* network_host_game(game_name, port)
network_host_game(w, n, game_name, port) ==
    IF w.ctx.state # NETWORK_STATE_DISCONNECTED THEN [w EXCEPT !.ret = 0]
    ELSE
    LET w1 == network_create_socket(w, n, "server_socket", 1)
    IN  IF w1.ret = 0 THEN w1
        ELSE
    LET w2 == network_bind_socket(w1, n, w1.ctx.server_socket, port, 1)
    IN  IF w2.ret = 0
        THEN [CloseSocket(w2, n, w2.ctx.server_socket)
                 EXCEPT !.ctx.server_socket = INVALID_SOCKET_VALUE, !.ret = 0]
        ELSE
    LET w3 == network_create_socket(w2, n, "broadcast_socket", 2)
    IN  IF w3.ret = 0
        THEN [CloseSocket(w3, n, w3.ctx.server_socket)
                 EXCEPT !.ctx.server_socket = INVALID_SOCKET_VALUE, !.ret = 0]
        ELSE
    LET w4 == network_bind_socket(w3, n, w3.ctx.broadcast_socket, NETWORK_BROADCAST_PORT, 2)
    IN  IF w4.ret = 0
        THEN [CloseSocket(CloseSocket(w4, n, w4.ctx.server_socket), n, w4.ctx.broadcast_socket)
                 EXCEPT !.ctx.server_socket = INVALID_SOCKET_VALUE,
                        !.ctx.broadcast_socket = INVALID_SOCKET_VALUE, !.ret = 0]
        ELSE [w4 EXCEPT !.ctx.local_port = port,
                        !.ctx.is_host = 1,
                        !.ctx.state = NETWORK_STATE_HOSTING,
                        !.ctx.players = <<>>,
                        !.ctx.game_name = strncpy(game_name, NETWORK_MAX_GAME_NAME - 1),
                        !.ret = 1]

\* a NULL player_name
NullString == <<0>>

\* a join that does not test the state first
network_join_game_any_state(w, n, ip, port, player_name) ==
    Then(network_create_socket(w, n, "server_socket", 1), LAMBDA w1 :
        IF w1.ret = 0 THEN w1
        ELSE IF KFails(w1, "resolve", 0)
        THEN [CloseSocket(w1, n, w1.ctx.server_socket)
                 EXCEPT !.ctx.server_socket = INVALID_SOCKET_VALUE, !.ret = 0]
        ELSE Then(network_send_message(w1, n, w1.ctx.server_socket, ip, port, MSG_JOIN_REQUEST,
                                       StrPayload(IF player_name # <<0>>
                                                  THEN strncpy(player_name, SIZEOF_JOIN_DATA - 1)
                                                  ELSE StrPlayer)), LAMBDA w2 :
                 IF w2.ret = 0
                 THEN [CloseSocket(w2, n, w2.ctx.server_socket)
                          EXCEPT !.ctx.server_socket = INVALID_SOCKET_VALUE, !.ret = 0]
                 ELSE [w2 EXCEPT !.ctx.is_host = 0,
                                 !.ctx.state = NETWORK_STATE_CONNECTING,
                                 !.ret = 1]))

\* network_join_game(hostname, port, player_name); hostname resolves to address ip
network_join_game(w, n, ip, port, player_name) ==
    IF w.ctx.state # NETWORK_STATE_DISCONNECTED THEN [w EXCEPT !.ret = 0]
    ELSE
    LET w1 == network_create_socket(w, n, "server_socket", 1)
    IN  IF w1.ret = 0 THEN w1
        ELSE IF KFails(w1, "resolve", 0)
        THEN [CloseSocket(w1, n, w1.ctx.server_socket)
                 EXCEPT !.ctx.server_socket = INVALID_SOCKET_VALUE, !.ret = 0]
        ELSE
    LET join_data == IF player_name # NullString
                     THEN strncpy(player_name, SIZEOF_JOIN_DATA - 1) ELSE StrPlayer
        w2 == network_send_message(w1, n, w1.ctx.server_socket, ip, port,
                                   MSG_JOIN_REQUEST, StrPayload(join_data))
    IN  IF w2.ret = 0
        THEN [CloseSocket(w2, n, w2.ctx.server_socket)
                 EXCEPT !.ctx.server_socket = INVALID_SOCKET_VALUE, !.ret = 0]
        ELSE [w2 EXCEPT !.ctx.is_host = 0,
                        !.ctx.state = NETWORK_STATE_CONNECTING,
                        !.ret = 1]

\* the loop of network_send_to_all from roster index i on; w.ret counts the successes
RECURSIVE SendToAllFrom(_, _, _, _, _)
SendToAllFrom(w, n, i, type, payload) ==
    IF i > player_count(w.ctx) THEN w
    ELSE IF w.ctx.players[i].connected = 0 THEN SendToAllFrom(w, n, i + 1, type, payload)
    ELSE LET count == w.ret
             w1 == network_send_message(w, n, w.ctx.server_socket, w.ctx.players[i].ip_address,
                                        w.ctx.players[i].port, type, payload)
         IN  SendToAllFrom([w1 EXCEPT !.ret = count + w1.ret], n, i + 1, type, payload)

\* a fan-out whose loop starts at the second roster entry
network_send_to_all_from_second(w, n, type, payload) ==
    IF w.ctx.server_socket = INVALID_SOCKET_VALUE THEN [w EXCEPT !.ret = 0]
    ELSE SendToAllFrom([w EXCEPT !.ret = 0], n, 2, type, payload)

\* network_send_to_all(type, data, size)
network_send_to_all(w, n, type, payload) ==
    IF w.ctx.server_socket = INVALID_SOCKET_VALUE THEN [w EXCEPT !.ret = 0]
    ELSE SendToAllFrom([w EXCEPT !.ret = 0], n, 1, type, payload)

\* network_send_to_player(player_id, type, data, size)
network_send_to_player(w, n, player_id, type, payload) ==
    LET found == {i \in 1..player_count(w.ctx) : w.ctx.players[i].player_id = player_id}
    IN  IF w.ctx.server_socket = INVALID_SOCKET_VALUE \/ found = {} THEN [w EXCEPT !.ret = 0]
        ELSE LET i == CHOOSE i \in found : \A j \in found : i <= j
             IN  network_send_message(w, n, w.ctx.server_socket, w.ctx.players[i].ip_address,
                                      w.ctx.players[i].port, type, payload)

\* network_send_chat(message)
network_send_chat(w, n, message) ==
    IF message = NullString THEN [w EXCEPT !.ret = 0]
    ELSE network_send_to_all(w, n, MSG_CHAT, StrPayload(message))

\* network_send_game_state(game_state, size)
network_send_game_state(w, n, payload) == network_send_to_all(w, n, MSG_GAME_STATE_SYNC, payload)

\* network_send_turn_data(turn_data, size)
network_send_turn_data(w, n, payload) == network_send_to_all(w, n, MSG_TURN_DATA, payload)

\* a disconnect that closes the sockets before it notifies the peers
network_disconnect_close_first(w, n) ==
    IF w.ctx.state = NETWORK_STATE_DISCONNECTED THEN w
    ELSE
    LET w1 == IF w.ctx.server_socket # INVALID_SOCKET_VALUE
              THEN [CloseSocket(w, n, w.ctx.server_socket)
                       EXCEPT !.ctx.server_socket = INVALID_SOCKET_VALUE]
              ELSE w
        w2 == IF w1.ctx.broadcast_socket # INVALID_SOCKET_VALUE
              THEN [CloseSocket(w1, n, w1.ctx.broadcast_socket)
                       EXCEPT !.ctx.broadcast_socket = INVALID_SOCKET_VALUE]
              ELSE w1
        w3 == IF w.ctx.state \in {NETWORK_STATE_CONNECTED, NETWORK_STATE_HOSTING}
              THEN network_send_to_all(w2, n, MSG_PLAYER_DISCONNECT, NoPayload) ELSE w2
    IN  [w3 EXCEPT !.ctx.state = NETWORK_STATE_DISCONNECTED,
                   !.ctx.players = <<>>,
                   !.ctx.is_host = 0,
                   !.ret = 0]

\* a disconnect that only resets the state
network_disconnect_state_only(w, n) ==
    [w EXCEPT !.ctx.state = NETWORK_STATE_DISCONNECTED, !.ret = 0]

\* network_disconnect()
network_disconnect(w, n) ==
    IF w.ctx.state = NETWORK_STATE_DISCONNECTED THEN w
    ELSE
    LET w1 == IF w.ctx.state \in {NETWORK_STATE_CONNECTED, NETWORK_STATE_HOSTING}
              THEN network_send_to_all(w, n, MSG_PLAYER_DISCONNECT, NoPayload) ELSE w
        w2 == IF w1.ctx.server_socket # INVALID_SOCKET_VALUE
              THEN [CloseSocket(w1, n, w1.ctx.server_socket)
                       EXCEPT !.ctx.server_socket = INVALID_SOCKET_VALUE]
              ELSE w1
        w3 == IF w2.ctx.broadcast_socket # INVALID_SOCKET_VALUE
              THEN [CloseSocket(w2, n, w2.ctx.broadcast_socket)
                       EXCEPT !.ctx.broadcast_socket = INVALID_SOCKET_VALUE]
              ELSE w2
    IN  [w3 EXCEPT !.ctx.state = NETWORK_STATE_DISCONNECTED,
                   !.ctx.players = <<>>,
                   !.ctx.is_host = 0,
                   !.ret = 0]

\* a start of discovery that keeps the sessions already found
network_start_discovery_keeps_registry(w, n) ==
    LET w1 == network_create_socket(w, n, "broadcast_socket", 1)
    IN  IF w1.ret = 0 THEN w1
        ELSE network_broadcast_discovery(
                 [w1 EXCEPT !.ctx.last_discovery_time = get_timestamp(now)], n)

\* network_start_discovery()
network_start_discovery(w, n) ==
    LET w1 == network_create_socket(w, n, "broadcast_socket", 1)
    IN  IF w1.ret = 0 THEN w1
        ELSE network_broadcast_discovery(
                 [w1 EXCEPT !.ctx.discovered_games = <<>>,
                            !.ctx.last_discovery_time = get_timestamp(now)], n)

\* network_stop_discovery()
network_stop_discovery(w, n) ==
    IF w.ctx.broadcast_socket # INVALID_SOCKET_VALUE
    THEN [CloseSocket(w, n, w.ctx.broadcast_socket)
             EXCEPT !.ctx.broadcast_socket = INVALID_SOCKET_VALUE]
    ELSE w

\* network_get_discovered_games(games, max_games): the entries copied to games
network_get_discovered_games(ctx, max_games) ==
    SubSeq(ctx.discovered_games, 1, Min(discovered_game_count(ctx), max_games))

(***************************************************************************)
(* Actions: one per API call, plus the clock and the LAN                   *)
(***************************************************************************)
Commit(n, result, op) ==
    \E w \in {result} :
    /\ g' = [g EXCEPT ![n] = w.ctx]
    /\ id_counter' = [id_counter EXCEPT ![n] = w.counter]
    /\ sockets' = w.net
    /\ trace' = w.trace
    /\ last' = [op |-> op, node |-> n, ret |-> w.ret]
    /\ UNCHANGED <<callbacks, now, g_mp_menu>>

\* the ports the kernel may pick for an unbound socket of process n
FreePorts(n) == {p \in EphemeralPorts : \A fd \in Fds : ~(sockets[n][fd].open /\ sockets[n][fd].port = p)}

HostGame(n, game_name, port, env) ==
    Commit(n, network_host_game(World(n, env), n, game_name, port), "host")

JoinGame(n, ip, port, player_name, env) ==
    /\ g[n].next_sequence < MaxSeq
    /\ env.eph \in FreePorts(n)
    /\ Commit(n, network_join_game(World(n, env), n, ip, port, player_name), "join")

Disconnect(n, env) ==
    Commit(n, network_disconnect(World(n, env), n), "disconnect")

Update(n, env) ==
    Commit(n, network_update(World(n, env), n), "update")

SendGameState(n, payload, env) ==
    /\ g[n].next_sequence < MaxSeq
    /\ Commit(n, network_send_game_state(World(n, env), n, payload), "send_game_state")

SendTurnData(n, payload, env) ==
    /\ g[n].next_sequence < MaxSeq
    /\ Commit(n, network_send_turn_data(World(n, env), n, payload), "send_turn_data")

SendChat(n, message, env) ==
    /\ g[n].next_sequence < MaxSeq
    /\ Commit(n, network_send_chat(World(n, env), n, message), "send_chat")

SendToAll(n, type, payload, env) ==
    /\ g[n].next_sequence < MaxSeq
    /\ Commit(n, network_send_to_all(World(n, env), n, type, payload), "send_to_all")

SendToPlayer(n, player_id, type, payload, env) ==
    /\ g[n].next_sequence < MaxSeq
    /\ Commit(n, network_send_to_player(World(n, env), n, player_id, type, payload), "send_to_player")

StartDiscovery(n, env) ==
    /\ g[n].next_sequence < MaxSeq
    /\ env.eph \in FreePorts(n)
    /\ Commit(n, network_start_discovery(World(n, env), n), "start_discovery")

StopDiscovery(n, env) ==
    Commit(n, network_stop_discovery(World(n, env), n), "stop_discovery")

\* network_set_callbacks(callbacks): cbs are the handlers that are not NULL
SetCallbacks(n, cbs) ==
    /\ callbacks' = [callbacks EXCEPT ![n] = cbs]
    /\ last' = [op |-> "set_callbacks", node |-> n, ret |-> 0]
    /\ trace' = <<>>
    /\ UNCHANGED <<g, id_counter, sockets, now, g_mp_menu>>

\* time(NULL) advances to t
Tick(t) ==
    /\ t > now
    /\ now' = t
    /\ last' = [op |-> "tick", node |-> 0, ret |-> 0]
    /\ trace' = <<>>
    /\ UNCHANGED <<g, id_counter, callbacks, sockets, g_mp_menu>>

\* what process n has received or still has queued
Inbound(n) ==
    LET RECURSIVE Queued(_)
        Queued(S) == IF S = {} THEN 0
                     ELSE LET fd == CHOOSE x \in S : TRUE
                          IN  Len(sockets[n][fd].inbox) + Queued(S \ {fd})
    IN  g[n].messages_received + g[n].errors + Queued(Fds)

\* a station of the LAN sends datagram d to port `port` of process n
LanSend(n, port, d, budget) ==
    /\ Inbound(n) < budget
    /\ \E fd \in Fds : /\ sockets[n][fd].open /\ sockets[n][fd].port = port
                       /\ Len(sockets[n][fd].inbox) < MaxInbox
    /\ sockets' = Deliver(sockets, n, port, d)
    /\ last' = [op |-> "lan_send", node |-> n, ret |-> 0]
    /\ trace' = <<>>
    /\ UNCHANGED <<g, id_counter, callbacks, now, g_mp_menu>>

(***************************************************************************)
(* The multiplayer menu (m_multiplayer_menu): its context and its states   *)
(***************************************************************************)
MP_MENU_MAIN == "MAIN"
MP_MENU_HOST_SETUP == "HOST_SETUP"
MP_MENU_GAME_BROWSER == "GAME_BROWSER"
MP_MENU_JOIN_SETUP == "JOIN_SETUP"
MP_MENU_LOBBY == "LOBBY"
MP_MENU_CONNECTING == "CONNECTING"
MP_MENU_ERROR == "ERROR"
MP_MENU_SETTINGS == "SETTINGS"

\* lobby_players[8]
LobbySlots == 1..NETWORK_MAX_PLAYERS

ZeroLobbyEntry == [player_id |-> Zero32, name |-> <<>>, ready |-> 0, host |-> 0]

\* the static g_mp_menu before multiplayer_menu_init, and after its memset:
\* current_state 0 is MP_MENU_MAIN
ZeroMenu ==
    [current_state |-> MP_MENU_MAIN, previous_state |-> MP_MENU_MAIN,
     lobby_players |-> [i \in LobbySlots |-> ZeroLobbyEntry],
     lobby_player_count |-> 0, lobby_ready |-> 0,
     browser_games |-> <<>>, browser_game_count |-> 0, browser_selected_game |-> 0]

\* every process has run network_init() at time t: the static counter starts at 1
\* and network_init draws the local player id from it
InitAt(t) ==
    /\ now = t
    /\ id_counter = [n \in Node |-> 2]
    /\ g = [n \in Node |-> InitContext(t, 1)]
    /\ callbacks = [n \in Node |-> {}]
    /\ sockets = [n \in Node |-> [fd \in Fds |-> SockClosed]]
    /\ last = [op |-> "init", node |-> 0, ret |-> 1]
    /\ trace = <<>>
    /\ g_mp_menu = ZeroMenu

Init == InitAt(T0)

(***************************************************************************)
(* Spec: one engine (process 1) driven through its whole API, with the LAN *)
(* delivering datagrams from a peer at the address it joins and from a     *)
(* foreign station.                                                        *)
(***************************************************************************)
RemoteIp == PeerNode
HostFaults == {NoFault, [call |-> "nonblock", k |-> 1], [call |-> "bind", k |-> 2]}
JoinFaults == {NoFault, [call |-> "nonblock", k |-> 1], [call |-> "resolve", k |-> 0]}
\* every sendto succeeds, or the first one of the call fails
SendFails == {{}, {1}}
AnyPort == CHOOSE p \in EphemeralPorts : TRUE
Quiet == Env({}, AnyPort, {}, NoFault)
LanPeers == {<<RemoteIp, NETWORK_DEFAULT_PORT>>, <<ForeignIp, NETWORK_DEFAULT_PORT>>}
SomeId == <<1, 515>>
LanDatagrams ==
    {Datagram(pr[1], pr[2], MSG_JOIN_REQUEST, StrPayload(StrNova), 1, Zero32) : pr \in LanPeers}
    \cup {Datagram(pr[1], pr[2], MSG_PLAYER_DISCONNECT, NoPayload, 1, Zero32) : pr \in LanPeers}
    \cup {Datagram(RemoteIp, NETWORK_DEFAULT_PORT, MSG_JOIN_RESPONSE, pl, 1, Zero32) :
             pl \in {U32Payload(SomeId), NoPayload}}

HostStep ==
    \E kf \in HostFaults :
        HostGame(Engine, StrArena, NETWORK_DEFAULT_PORT, Env({}, AnyPort, {}, kf))

\* the port the kernel gives the next unbound socket that sends
NextPort == IF AnyPort \in FreePorts(Engine) THEN AnyPort ELSE CHOOSE p \in FreePorts(Engine) : TRUE

JoinStep ==
    \E f \in SendFails, kf \in JoinFaults :
        JoinGame(Engine, RemoteIp, NETWORK_DEFAULT_PORT, StrNova, Env(f, NextPort, {}, kf))

DisconnectStep == \E f \in SendFails : Disconnect(Engine, Env(f, AnyPort, {}, NoFault))

UpdateStep == \E f \in SendFails : Update(Engine, Env(f, AnyPort, {}, NoFault))

SendStep ==
    \E f \in SendFails :
        LET env == Env(f, AnyPort, {}, NoFault)
        IN  \/ SendGameState(Engine, StrPayload(StrNova), env)
            \/ SendTurnData(Engine, StrPayload(StrNova), env)
            \/ \E m \in {StrNova, NullString} : SendChat(Engine, m, env)
            \/ SendToAll(Engine, MSG_GAME_DATA, NoPayload, env)
            \/ \E id \in {Zero32} \cup {g[Engine].players[i].player_id :
                                         i \in 1..player_count(g[Engine])} :
                  SendToPlayer(Engine, id, MSG_GAME_DATA, NoPayload, env)

LanStep ==
    \E d \in LanDatagrams, port \in {NETWORK_DEFAULT_PORT, AnyPort} :
        LanSend(Engine, port, d, LanBudget)

CallbackStep == SetCallbacks(Engine, CallbackNames)

Next ==
    \/ HostStep
    \/ JoinStep
    \/ DisconnectStep
    \/ UpdateStep
    \/ SendStep
    \/ LanStep
    \/ CallbackStep

Spec == Init /\ [][Next]_vars

(***************************************************************************)
(* SpecRoster: a host whose roster fills up and empties.  Two peers at the *)
(* same address and different ports send join requests and disconnects; a  *)
(* third port of that address only sends disconnects.  The LAN sends the   *)
(* next datagram when the last one has been read.                          *)
(***************************************************************************)
PeerA == <<ForeignIp, 5000>>
PeerB == <<ForeignIp, 5001>>
PeerC == <<ForeignIp, 5002>>
RosterDatagrams ==
    {Datagram(PeerA[1], PeerA[2], MSG_JOIN_REQUEST, StrPayload(StrNova), 1, Zero32),
     Datagram(PeerB[1], PeerB[2], MSG_JOIN_REQUEST, NoPayload, 1, Zero32)}
    \cup {Datagram(pr[1], pr[2], MSG_PLAYER_DISCONNECT, NoPayload, 1, Zero32) :
             pr \in {PeerA, PeerB, PeerC}}

ServerInboxEmpty(n) ==
    g[n].server_socket # INVALID_SOCKET_VALUE /\ sockets[n][g[n].server_socket].inbox = <<>>

RosterHost ==
    /\ g[Engine].state = NETWORK_STATE_DISCONNECTED
    /\ HostGame(Engine, StrArena, NETWORK_DEFAULT_PORT, Quiet)

RosterLan ==
    /\ ServerInboxEmpty(Engine)
    /\ \E d \in RosterDatagrams : LanSend(Engine, NETWORK_DEFAULT_PORT, d, RosterBudget)

RosterUpdate == Update(Engine, Quiet)

\* the handlers are registered before the game is hosted, or never
RosterCallbacks ==
    /\ g[Engine].state = NETWORK_STATE_DISCONNECTED
    /\ callbacks[Engine] = {}
    /\ SetCallbacks(Engine, CallbackNames)

NextRoster ==
    \/ RosterHost
    \/ RosterLan
    \/ RosterUpdate
    \/ RosterCallbacks

SpecRoster == Init /\ [][NextRoster]_vars

(***************************************************************************)
(* SpecIds: a host through more than 256 id generations within one second. *)
(* Two peers join when they are not in the roster and leave when they are. *)
(* The second is one at which the timestamp's upper 24 bits are zero.      *)
(***************************************************************************)
InRoster(pr) == MatchingPlayers(g[Engine].players, pr[1], pr[2]) # {}

IdsHost ==
    /\ g[Engine].state = NETWORK_STATE_DISCONNECTED
    /\ HostGame(Engine, StrArena, NETWORK_DEFAULT_PORT, Quiet)

IdsJoin ==
    /\ ServerInboxEmpty(Engine)
    /\ id_counter[Engine] < MaxIdCounter
    /\ \E pr \in {PeerA, PeerB} :
          /\ ~InRoster(pr)
          /\ LanSend(Engine, NETWORK_DEFAULT_PORT,
                     Datagram(pr[1], pr[2], MSG_JOIN_REQUEST, StrPayload(StrNova), 1, Zero32),
                     4 * MaxIdCounter)

IdsLeave ==
    /\ ServerInboxEmpty(Engine)
    /\ \E pr \in {PeerA, PeerB} :
          /\ InRoster(pr)
          /\ LanSend(Engine, NETWORK_DEFAULT_PORT,
                     Datagram(pr[1], pr[2], MSG_PLAYER_DISCONNECT, NoPayload, 1, Zero32),
                     4 * MaxIdCounter)

IdsUpdate == Update(Engine, Quiet)

NextIds ==
    \/ IdsHost
    \/ IdsJoin
    \/ IdsLeave
    \/ IdsUpdate

SpecIds == InitAt(TZero) /\ [][NextIds]_vars

(***************************************************************************)
(* SpecJoin: process HostNode hosts, process ClientNode joins it over a    *)
(* LAN that loses nothing, and both keep calling network_update().  The    *)
(* client may leave once connected and join again.                         *)
(***************************************************************************)
HostNode == Engine
ClientNode == PeerNode
ClientNames == {StrNova, NullString}

JoinHost ==
    /\ g[HostNode].state = NETWORK_STATE_DISCONNECTED
    /\ HostGame(HostNode, StrArena, NETWORK_DEFAULT_PORT, Quiet)

JoinClient ==
    /\ g[HostNode].state = NETWORK_STATE_HOSTING
    /\ \E eph \in EphemeralPorts, name \in ClientNames :
          JoinGame(ClientNode, HostNode, NETWORK_DEFAULT_PORT, name, Env({}, eph, {}, NoFault))

JoinHostUpdate == Update(HostNode, Quiet)

JoinClientUpdate == Update(ClientNode, Quiet)

JoinClientLeave ==
    /\ g[ClientNode].state = NETWORK_STATE_CONNECTED
    /\ Disconnect(ClientNode, Quiet)

JoinTick == Tick(T0 + 1)

NextJoin ==
    \/ JoinHost
    \/ JoinClient
    \/ JoinHostUpdate
    \/ JoinClientUpdate
    \/ JoinClientLeave
    \/ JoinTick

SpecJoin ==
    Init /\ [][NextJoin]_vars /\ WF_vars(JoinHostUpdate) /\ WF_vars(JoinClientUpdate)

(***************************************************************************)
(* SpecReject: a host whose two sockets receive datagrams that are not     *)
(* frames of the protocol, next to one that is.                            *)
(***************************************************************************)
JoinFrame == Datagram(ForeignIp, 5000, MSG_JOIN_REQUEST, StrPayload(StrNova), 1, Zero32)
RejectDatagrams ==
    {JoinFrame,
     [JoinFrame EXCEPT !.received = 0],
     [JoinFrame EXCEPT !.received = HEADER_SIZE - 1],
     [JoinFrame EXCEPT !.magic = <<67, 66, 73, 76>>],
     [JoinFrame EXCEPT !.magic = <<76, 73, 66, 66>>],
     [JoinFrame EXCEPT !.version = htons(NETWORK_PROTOCOL_VERSION + 1)],
     [JoinFrame EXCEPT !.size = htonl(U32(NETWORK_MAX_MESSAGE_SIZE + 1)),
                       !.received = HEADER_SIZE + NETWORK_MAX_MESSAGE_SIZE + 1],
     [JoinFrame EXCEPT !.size = <<255, 255, 255, 255>>],
     [JoinFrame EXCEPT !.received = @ + 1]}
\* what errno may hold when recvfrom returns 0
StaleErrno == {"EWOULDBLOCK", "ECONNREFUSED"}

RejectHost ==
    /\ g[Engine].state = NETWORK_STATE_DISCONNECTED
    /\ HostGame(Engine, StrArena, NETWORK_DEFAULT_PORT, Quiet)

RejectLan ==
    \E d \in RejectDatagrams, port \in {NETWORK_DEFAULT_PORT, NETWORK_BROADCAST_PORT} :
        LanSend(Engine, port, d, RejectBudget)

RejectUpdate == \E e \in StaleErrno : Update(Engine, WithErrno(Quiet, e))

NextReject ==
    \/ RejectHost
    \/ RejectLan
    \/ RejectUpdate

SpecReject == Init /\ [][NextReject]_vars

(***************************************************************************)
(* SpecFrames: the host and the client of SpecJoin, and the host sends     *)
(* frames of every message type and of payload lengths 0, 1, 3, 4, 5, 1024 *)
(* and 1025 to its roster; the client reads each one before the next is    *)
(* sent.                                                                   *)
(***************************************************************************)
Ramp(k) == [i \in 1..k |-> i % U8]
MessageTypes == MSG_DISCOVERY_REQUEST..MSG_ERROR
FramePayloads ==
    {NoPayload, BytesPayload(<<0>>), BytesPayload(<<255, 0, 7>>), StrPayload(StrNova),
     U32Payload(SomeId),
     BytesPayload(Ramp(NETWORK_MAX_MESSAGE_SIZE)),
     BytesPayload(Ramp(NETWORK_MAX_MESSAGE_SIZE + 1))}

FrameSend ==
    /\ ServerInboxEmpty(ClientNode)
    /\ \E ty \in MessageTypes, p \in FramePayloads, f \in SendFails :
          SendToAll(HostNode, ty, p, Env(f, AnyPort, {}, NoFault))

NextFrames ==
    \/ JoinHost
    \/ JoinClient
    \/ JoinHostUpdate
    \/ JoinClientUpdate
    \/ FrameSend

SpecFrames == Init /\ [][NextFrames]_vars

(***************************************************************************)
(* SpecRegistry: a client starts discovery and joins; while it waits for   *)
(* the join response, hosts of the LAN answer its discovery socket.  The   *)
(* sessions answer in the order of their ids, one more than the registry   *)
(* can hold; the first and the sixteenth answer again with another number  *)
(* of players.                                                             *)
(***************************************************************************)
Advert(k, players) ==
    Datagram(ForeignIp, NETWORK_BROADCAST_PORT, MSG_DISCOVERY_RESPONSE,
             InfoPayload([game_name |-> StrArena, host_ip |-> ForeignIp,
                          host_port |-> NETWORK_DEFAULT_PORT,
                          current_players |-> players,
                          max_players |-> NETWORK_MAX_PLAYERS,
                          game_id |-> <<0, k>>, last_seen |-> Zero32]),
             1, Zero32)

DiscoveryInboxEmpty(n) ==
    /\ g[n].broadcast_socket # INVALID_SOCKET_VALUE
    /\ sockets[n][g[n].broadcast_socket].inbox = <<>>

DiscoveryPort(n) == sockets[n][g[n].broadcast_socket].port

RegistryStart ==
    /\ g[Engine].state = NETWORK_STATE_DISCONNECTED
    /\ g[Engine].broadcast_socket = INVALID_SOCKET_VALUE
    /\ StartDiscovery(Engine, Quiet)

RegistryJoin ==
    /\ g[Engine].state = NETWORK_STATE_DISCONNECTED
    /\ g[Engine].broadcast_socket # INVALID_SOCKET_VALUE
    /\ JoinGame(Engine, RemoteIp, NETWORK_DEFAULT_PORT, StrNova, Env({}, NextPort, {}, NoFault))

RegistryLan ==
    /\ DiscoveryInboxEmpty(Engine)
    /\ g[Engine].state # NETWORK_STATE_DISCONNECTED
    /\ \/ \E k \in {discovered_game_count(g[Engine]) + 1} \cup
                    {j \in {MAX_DISCOVERED_GAMES + 1, MAX_DISCOVERED_GAMES + 2} :
                        discovered_game_count(g[Engine]) = MAX_DISCOVERED_GAMES} :
             LanSend(Engine, DiscoveryPort(Engine), Advert(k, 1), RegistryBudget)
       \/ \E k \in {1, MAX_DISCOVERED_GAMES} \cap 1..discovered_game_count(g[Engine]),
              players \in {1, 2} :
             LanSend(Engine, DiscoveryPort(Engine), Advert(k, players), RegistryBudget)

RegistryUpdate == Update(Engine, Quiet)

RegistryTick == Tick(T0 + 1)

NextRegistry ==
    \/ RegistryStart
    \/ RegistryJoin
    \/ RegistryLan
    \/ RegistryUpdate
    \/ RegistryTick

SpecRegistry == Init /\ [][NextRegistry]_vars

(***************************************************************************)
(* SpecDiscovery: process HostNode hosts; process ClientNode starts and    *)
(* stops discovery, joins the host and leaves it; both call                *)
(* network_update() while the clock advances past the discovery interval.  *)
(* A foreign station sends discovery requests to any open port.            *)
(***************************************************************************)
ForeignRequest == Datagram(ForeignIp, 5000, MSG_DISCOVERY_REQUEST, NoPayload, 1, Zero32)

DiscHost ==
    /\ g[HostNode].state = NETWORK_STATE_DISCONNECTED
    /\ HostGame(HostNode, StrArena, NETWORK_DEFAULT_PORT, Quiet)

\* the port the kernel gives the next unbound socket of the client that sends
ClientPort == CHOOSE p \in FreePorts(ClientNode) : \A q \in FreePorts(ClientNode) : p <= q

DiscStart ==
    /\ g[ClientNode].broadcast_socket = INVALID_SOCKET_VALUE
    /\ StartDiscovery(ClientNode, Env({}, ClientPort, {}, NoFault))

DiscStop ==
    /\ g[ClientNode].broadcast_socket # INVALID_SOCKET_VALUE
    /\ StopDiscovery(ClientNode, Quiet)

DiscJoin ==
    /\ g[HostNode].state = NETWORK_STATE_HOSTING
    /\ g[ClientNode].state = NETWORK_STATE_DISCONNECTED
    /\ JoinGame(ClientNode, HostNode, NETWORK_DEFAULT_PORT, StrNova,
                Env({}, ClientPort, {}, NoFault))

DiscLeave ==
    /\ g[ClientNode].state # NETWORK_STATE_DISCONNECTED
    /\ Disconnect(ClientNode, Quiet)

DiscLan ==
    \/ \E port \in {NETWORK_DEFAULT_PORT, NETWORK_BROADCAST_PORT} :
          LanSend(HostNode, port, ForeignRequest, DiscoveryBudget)
    \/ /\ g[ClientNode].server_socket # INVALID_SOCKET_VALUE
       /\ LanSend(ClientNode, sockets[ClientNode][g[ClientNode].server_socket].port,
                  ForeignRequest, DiscoveryBudget)

DiscHostUpdate == Update(HostNode, Quiet)

DiscClientUpdate == Update(ClientNode, Quiet)

DiscTick == \E t \in {T0 + 1, T0 + 2} : Tick(t)

NextDiscovery ==
    \/ DiscHost
    \/ DiscStart
    \/ DiscStop
    \/ DiscJoin
    \/ DiscLeave
    \/ DiscLan
    \/ DiscHostUpdate
    \/ DiscClientUpdate
    \/ DiscTick

SpecDiscovery == Init /\ [][NextDiscovery]_vars

(***************************************************************************)
(* SpecChat: a host with any set of handlers registered.  PeerA joins,     *)
(* possibly twice, and leaves; PeerA and PeerC, who never joined, send     *)
(* game data and chat: no payload, a terminated string, bytes with a NUL   *)
(* in the middle and bytes without a NUL.  What follows the payload in     *)
(* message_data is a NUL or one more character.                            *)
(***************************************************************************)
ChatPayloads ==
    {NoPayload, StrPayload(StrNova), BytesPayload(<<255, 0, 7>>), BytesPayload(<<72, 105>>)}
ChatDatagrams ==
    {Datagram(PeerA[1], PeerA[2], MSG_JOIN_REQUEST, StrPayload(StrNova), 1, Zero32),
     Datagram(PeerA[1], PeerA[2], MSG_PLAYER_DISCONNECT, NoPayload, 1, Zero32)}
    \cup {Datagram(pr[1], pr[2], ty, p, 1, Zero32) :
             pr \in {PeerA, PeerC}, ty \in {MSG_GAME_DATA, MSG_CHAT}, p \in ChatPayloads}
StaleTails == {<<>>, <<33>>}

ChatCallbacks ==
    /\ g[Engine].state = NETWORK_STATE_DISCONNECTED
    /\ callbacks[Engine] = {}
    /\ \E cbs \in SUBSET CallbackNames : SetCallbacks(Engine, cbs)

ChatHost ==
    /\ g[Engine].state = NETWORK_STATE_DISCONNECTED
    /\ HostGame(Engine, StrArena, NETWORK_DEFAULT_PORT, Quiet)

ChatLan ==
    /\ ServerInboxEmpty(Engine)
    /\ \E d \in ChatDatagrams : LanSend(Engine, NETWORK_DEFAULT_PORT, d, ChatBudget)

ChatUpdate == \E t \in StaleTails : Update(Engine, WithStale(Quiet, t))

NextChat ==
    \/ ChatCallbacks
    \/ ChatHost
    \/ ChatLan
    \/ ChatUpdate

SpecChat == Init /\ [][NextChat]_vars

(***************************************************************************)
(* SpecFaults: the engine of Spec, whose recvfrom calls may also fail with *)
(* an error other than would-block, on either socket.                      *)
(***************************************************************************)
RxFaults == SUBSET {"server", "broadcast"}

FaultUpdate ==
    \E f \in SendFails, rx \in RxFaults :
        /\ rx # {} => g[Engine].errors < MaxErrors
        /\ Update(Engine, Env(f, AnyPort, rx, NoFault))

NextFaults ==
    \/ HostStep
    \/ JoinStep
    \/ DisconnectStep
    \/ SendStep
    \/ LanStep
    \/ FaultUpdate

SpecFaults == Init /\ [][NextFaults]_vars

(***************************************************************************)
(* SpecBrowse: one engine hosts, joins and leaves, and calls               *)
(* start_discovery, stop_discovery and broadcast_discovery in any state,   *)
(* as the game browser of the menu does; the LAN sends it adverts and      *)
(* discovery requests.                                                     *)
(***************************************************************************)
\* network_broadcast_discovery() called by the application
BroadcastDiscovery(n, env) ==
    /\ g[n].next_sequence < MaxSeq
    /\ Commit(n, network_broadcast_discovery(World(n, env), n), "broadcast_discovery")

BrowseHost ==
    /\ g[Engine].state = NETWORK_STATE_DISCONNECTED
    /\ HostGame(Engine, StrArena, NETWORK_DEFAULT_PORT, Quiet)

BrowseJoin ==
    /\ g[Engine].state = NETWORK_STATE_DISCONNECTED
    /\ FreePorts(Engine) # {}
    /\ JoinGame(Engine, RemoteIp, NETWORK_DEFAULT_PORT, StrNova, Env({}, NextPort, {}, NoFault))

BrowseLeave == Disconnect(Engine, Quiet)

BrowseStart ==
    /\ FreeFds(sockets, Engine) # {}
    /\ FreePorts(Engine) # {}
    /\ StartDiscovery(Engine, Env({}, NextPort, {}, NoFault))

BrowseStop == StopDiscovery(Engine, Quiet)

BrowseBroadcast ==
    /\ FreePorts(Engine) # {}
    /\ BroadcastDiscovery(Engine, Env({}, NextPort, {}, NoFault))

BrowseLan ==
    \E port \in {sockets[Engine][fd].port : fd \in Fds} :
        \/ \E k \in 1..2 : LanSend(Engine, port, Advert(k, 1), LanBudget)
        \/ /\ port = NETWORK_BROADCAST_PORT
           /\ LanSend(Engine, port, ForeignRequest, LanBudget)

BrowseUpdate == Update(Engine, Quiet)

BrowseTick == Tick(T0 + 1)

NextBrowse ==
    \/ BrowseHost
    \/ BrowseJoin
    \/ BrowseLeave
    \/ BrowseStart
    \/ BrowseStop
    \/ BrowseBroadcast
    \/ BrowseLan
    \/ BrowseUpdate
    \/ BrowseTick

SpecBrowse == Init /\ [][NextBrowse]_vars

(***************************************************************************)
(* The multiplayer menu.  Every operator takes the world w of process n    *)
(* and the menu context m and returns both.  The input handlers look at    *)
(* the keyboard state and at the state they saw the call before; what they *)
(* act on is the key whose press they detect, which is their argument key. *)
(***************************************************************************)
Keys == {"1", "2", "3", "ESCAPE", "ENTER", "UP", "DOWN", "R", "SPACE"}

\* "127.0.0.1", the join_hostname of multiplayer_init_default_settings
Localhost(n) == network_get_local_ip(n)

\* multiplayer_menu_set_state(new_state)
multiplayer_menu_set_state(m, new_state) ==
    [m EXCEPT !.previous_state = m.current_state, !.current_state = new_state]

\* multiplayer_host_start_game(); player_id of the host's lobby entry is not assigned
multiplayer_host_start_game(w, n, m) ==
    Then(network_host_game(w, n, StrDefaultGame, NETWORK_DEFAULT_PORT), LAMBDA w1 :
        IF w1.ret # 0
        THEN [w |-> w1,
              m |-> [multiplayer_menu_set_state(m, MP_MENU_LOBBY) EXCEPT
                        !.lobby_player_count = 1,
                        !.lobby_players[1].name = StrPlayer,
                        !.lobby_players[1].host = 1,
                        !.lobby_players[1].ready = 1]]
        ELSE [w |-> w1, m |-> m])

\* multiplayer_join_connect()
multiplayer_join_connect(w, n, m) ==
    Then(network_join_game(w, n, Localhost(n), NETWORK_DEFAULT_PORT, StrPlayer), LAMBDA w1 :
        IF w1.ret # 0
        THEN [w |-> w1, m |-> multiplayer_menu_set_state(m, MP_MENU_CONNECTING)]
        ELSE [w |-> w1, m |-> m])

\* multiplayer_browser_refresh(): the count is read with max_games = 0
multiplayer_browser_refresh(w, n, m) ==
    Then(network_start_discovery(w, n), LAMBDA w1 :
        LET count == Len(network_get_discovered_games(w1.ctx, 0))
            games == network_get_discovered_games(w1.ctx, MAX_DISCOVERED_GAMES)
        IN  [w |-> w1,
             m |-> IF count > 0
                   THEN [m EXCEPT !.browser_games = games, !.browser_game_count = Len(games)]
                   ELSE [m EXCEPT !.browser_game_count = count]])

\* multiplayer_browser_join_selected(): joins the address the menu holds
multiplayer_browser_join_selected(w, n, m) ==
    IF m.browser_selected_game < m.browser_game_count
    THEN multiplayer_join_connect(w, n, m)
    ELSE [w |-> w, m |-> m]

\* multiplayer_lobby_leave()
multiplayer_lobby_leave(w, n, m) ==
    [w |-> network_disconnect(w, n), m |-> multiplayer_menu_set_state(m, MP_MENU_MAIN)]

\* multiplayer_on_player_joined(player_id, player_name)
multiplayer_on_player_joined(m, player_id, player_name) ==
    IF m.lobby_player_count < NETWORK_MAX_PLAYERS
    THEN [m EXCEPT !.lobby_players[m.lobby_player_count + 1] =
                       [@ EXCEPT !.player_id = player_id,
                                 !.name = strncpy(player_name, SIZEOF_PLAYER_NAME - 1),
                                 !.ready = 0, !.host = 0],
                   !.lobby_player_count = @ + 1]
    ELSE m

\* multiplayer_on_player_left(player_id)
multiplayer_on_player_left(m, player_id) ==
    LET found == {i \in 1..m.lobby_player_count : m.lobby_players[i].player_id = player_id}
    IN  IF found = {} THEN m
        ELSE LET i == CHOOSE x \in found : \A y \in found : x <= y
             IN  [m EXCEPT !.lobby_players =
                               [j \in LobbySlots |->
                                   IF j >= i /\ j < m.lobby_player_count
                                   THEN m.lobby_players[j + 1] ELSE m.lobby_players[j]],
                           !.lobby_player_count = @ - 1]

\* the handlers of multiplayer_menu_init applied to the handler calls of one
\* network_update, in the order they were made
RECURSIVE MenuCallbacks(_, _)
MenuCallbacks(m, evs) ==
    IF evs = <<>> THEN m
    ELSE LET ev == Head(evs)
         IN  MenuCallbacks(
                 CASE ev.op = "on_player_joined" ->
                          multiplayer_on_player_joined(m, ev.id, ev.name)
                   [] ev.op = "on_player_left" -> multiplayer_on_player_left(m, ev.id)
                   [] OTHER -> m,
                 Tail(evs))

\* multiplayer_menu_update(); due: the browser's refresh interval has elapsed
multiplayer_menu_update(w, n, m, due) ==
    Then(network_update(w, n), LAMBDA w1 :
    Then(MenuCallbacks(m, SelectSeq(w1.trace, LAMBDA e : e.op \in CallbackNames)), LAMBDA m1 :
        IF m1.current_state = MP_MENU_GAME_BROWSER /\ due
        THEN multiplayer_browser_refresh(w1, n, m1)
        ELSE [w |-> w1, m |-> m1]))

\* multiplayer_menu_handle_input() and the handler it selects
multiplayer_menu_handle_input(w, n, m, key) ==
    LET same == [w |-> w, m |-> m]
        to(s) == [w |-> w, m |-> multiplayer_menu_set_state(m, s)]
    IN  CASE m.current_state \in {MP_MENU_MAIN, MP_MENU_ERROR, MP_MENU_SETTINGS} ->
                 CASE key = "1" -> to(MP_MENU_HOST_SETUP)
                   [] key = "2" -> to(MP_MENU_JOIN_SETUP)
                   [] key = "3" -> multiplayer_browser_refresh(
                                       w, n, multiplayer_menu_set_state(m, MP_MENU_GAME_BROWSER))
                   [] OTHER -> same
          [] m.current_state = MP_MENU_HOST_SETUP ->
                 CASE key = "ENTER" -> multiplayer_host_start_game(w, n, m)
                   [] key = "ESCAPE" -> to(MP_MENU_MAIN)
                   [] OTHER -> same
          [] m.current_state \in {MP_MENU_JOIN_SETUP, MP_MENU_CONNECTING} ->
                 CASE key = "ENTER" -> multiplayer_join_connect(w, n, m)
                   [] key = "ESCAPE" -> to(MP_MENU_MAIN)
                   [] OTHER -> same
          [] m.current_state = MP_MENU_GAME_BROWSER ->
                 CASE key = "UP" /\ m.browser_selected_game > 0 ->
                          [w |-> w, m |-> [m EXCEPT !.browser_selected_game = @ - 1]]
                   [] key = "DOWN" /\ m.browser_selected_game < m.browser_game_count - 1 ->
                          [w |-> w, m |-> [m EXCEPT !.browser_selected_game = @ + 1]]
                   [] key = "ENTER" -> multiplayer_browser_join_selected(w, n, m)
                   [] key = "R" -> multiplayer_browser_refresh(w, n, m)
                   [] key = "ESCAPE" -> to(MP_MENU_MAIN)
                   [] OTHER -> same
          [] m.current_state = MP_MENU_LOBBY ->
                 CASE key = "SPACE" -> [w |-> w, m |-> [m EXCEPT !.lobby_ready = 1 - @]]
                   [] key = "ESCAPE" -> multiplayer_lobby_leave(w, n, m)
                   [] OTHER -> same

\* the step of a menu call: the engine of process n and the menu change together
MenuCommit(n, result, op) ==
    \E r \in {result} :
    /\ g' = [g EXCEPT ![n] = r.w.ctx]
    /\ id_counter' = [id_counter EXCEPT ![n] = r.w.counter]
    /\ sockets' = r.w.net
    /\ trace' = r.w.trace
    /\ last' = [op |-> op, node |-> n, ret |-> r.w.ret]
    /\ g_mp_menu' = r.m
    /\ UNCHANGED <<callbacks, now>>

(***************************************************************************)
(* SpecMenu: process Engine runs the menu: multiplayer_menu_init, then     *)
(* inputs and updates in any order, while peers of the LAN send join       *)
(* requests and disconnects to its session port and a host on the same     *)
(* machine answers its join.                                               *)
(***************************************************************************)
\* multiplayer_menu_init(): the menu is reset and registers its five handlers
MenuInit ==
    /\ callbacks[Engine] = {}
    /\ callbacks' = [callbacks EXCEPT ![Engine] = CallbackNames]
    /\ g_mp_menu' = ZeroMenu
    /\ last' = [op |-> "menu_init", node |-> Engine, ret |-> 1]
    /\ trace' = <<>>
    /\ UNCHANGED <<g, id_counter, sockets, now>>

\* one call of multiplayer_menu_handle_input that detects the press of a key of K
MenuInput(K) ==
    /\ callbacks[Engine] = CallbackNames
    /\ g[Engine].next_sequence < MaxSeq
    /\ FreePorts(Engine) # {}
    /\ \E key \in K :
          MenuCommit(Engine,
                     multiplayer_menu_handle_input(World(Engine, Env({}, NextPort, {}, NoFault)),
                                                   Engine, g_mp_menu, key),
                     "menu_input")

\* one call of multiplayer_menu_update
MenuUpdate ==
    /\ callbacks[Engine] = CallbackNames
    /\ FreePorts(Engine) # {}
    /\ \E due \in BOOLEAN :
          /\ due => g[Engine].next_sequence < MaxSeq
          /\ MenuCommit(Engine,
                        multiplayer_menu_update(World(Engine, Env({}, NextPort, {}, NoFault)),
                                                Engine, g_mp_menu, due),
                        "menu_update")

\* a station of the LAN sends a datagram of D to the session port of Engine
MenuLan(D, budget) ==
    /\ ServerInboxEmpty(Engine)
    /\ \E d \in D :
          LanSend(Engine, sockets[Engine][g[Engine].server_socket].port, d, budget)

PeerJoin(pr, payload) == Datagram(pr[1], pr[2], MSG_JOIN_REQUEST, payload, 1, Zero32)
PeerLeave(pr) == Datagram(pr[1], pr[2], MSG_PLAYER_DISCONNECT, NoPayload, 1, Zero32)
LocalAccept ==
    Datagram(Localhost(Engine), NETWORK_DEFAULT_PORT, MSG_JOIN_RESPONSE,
             U32Payload(SomeId), 1, Zero32)

MenuKey == MenuInput(Keys)
MenuPeer == MenuLan({PeerJoin(PeerA, StrPayload(StrNova)), PeerLeave(PeerA), LocalAccept}, LanBudget)

NextMenu ==
    \/ MenuInit
    \/ MenuKey
    \/ MenuUpdate
    \/ MenuPeer

SpecMenu == Init /\ [][NextMenu]_vars

(***************************************************************************)
(* SpecLobby: the menu hosts a session and peers join and leave it.        *)
(***************************************************************************)
LobbyKeys == {"1", "ENTER", "ESCAPE"}
LobbyKey == MenuInput(LobbyKeys)
LobbyUpdate ==
    /\ callbacks[Engine] = CallbackNames
    /\ MenuCommit(Engine,
                  multiplayer_menu_update(World(Engine, Quiet), Engine, g_mp_menu, FALSE),
                  "menu_update")
LobbyPeer ==
    MenuLan({PeerJoin(PeerA, StrPayload(StrNova)), PeerJoin(PeerB, NoPayload),
             PeerLeave(PeerA), PeerLeave(PeerB)}, RosterBudget)

NextLobby ==
    \/ MenuInit
    \/ LobbyKey
    \/ LobbyUpdate
    \/ LobbyPeer

SpecLobby == Init /\ [][NextLobby]_vars

(***************************************************************************)
(* Reading the trace of a step                                             *)
(***************************************************************************)
Events(tr, op) == SelectSeq(tr, LAMBDA e : e.op = op)
Dispatched(tr) == Events(tr, "dispatch")
Sent(tr) == Events(tr, "sendto")
Closed(tr) == Events(tr, "close")

\* the step just taken was a network_update() of n that dispatched exactly one
\* message, of type ty
DispatchedOne(n, ty) ==
    /\ last'.op = "update" /\ last'.node = n
    /\ Len(Dispatched(trace')) = 1
    /\ Dispatched(trace')[1].type = ty

\* the port the session socket of n is bound to
SessionPort(n) ==
    IF IsOpen(sockets, n, g[n].server_socket) THEN sockets[n][g[n].server_socket].port ELSE 0

(***************************************************************************)
(* Claims                                                                  *)
(***************************************************************************)

\* C1: when the client is Connecting, the host is Hosting with roster capacity
\* left and the client's join request is queued at the host, then (nothing being
\* lost and both sides updating) the client eventually is Connected with a local
\* peer id that the host's roster holds for the client's address and port.
JoinPending ==
    /\ g[ClientNode].state = NETWORK_STATE_CONNECTING
    /\ g[HostNode].state = NETWORK_STATE_HOSTING
    /\ player_count(g[HostNode]) < NETWORK_MAX_PLAYERS
    /\ \E i \in 1..Len(sockets[HostNode][g[HostNode].server_socket].inbox) :
          LET d == sockets[HostNode][g[HostNode].server_socket].inbox[i]
          IN  ntohs(d.type) = MSG_JOIN_REQUEST /\ d.src_ip = ClientNode /\ d.src_port = SessionPort(ClientNode)
JoinedWithHostId ==
    /\ g[ClientNode].state = NETWORK_STATE_CONNECTED
    /\ \E i \in MatchingPlayers(g[HostNode].players, ClientNode, SessionPort(ClientNode)) :
          g[HostNode].players[i].player_id = g[ClientNode].local_player_id
TransitionAllowed(n) ==
    LET from == g[n].state
        to == g'[n].state
    IN  /\ (from = NETWORK_STATE_DISCONNECTED /\ to # from) =>
              /\ last'.node = n /\ last'.ret = 1
              /\ \/ last'.op = "host" /\ to = NETWORK_STATE_HOSTING
                 \/ last'.op = "join" /\ to = NETWORK_STATE_CONNECTING
        /\ (to = NETWORK_STATE_CONNECTED /\ to # from) =>
              /\ from = NETWORK_STATE_CONNECTING
              /\ last'.op = "update" /\ last'.node = n
              /\ \E i \in 1..Len(Dispatched(trace')) :
                    Dispatched(trace')[i].type = MSG_JOIN_RESPONSE
        /\ (to = NETWORK_STATE_HOSTING) =>
              from \in {NETWORK_STATE_HOSTING, NETWORK_STATE_DISCONNECTED}
        /\ (to \in {NETWORK_STATE_CONNECTING, NETWORK_STATE_CONNECTED}) =>
              from # NETWORK_STATE_HOSTING
C2_TransitionRelation == [][\A n \in Node : TransitionAllowed(n)]_vars
C2_Witness ==
    /\ g[Engine].state = NETWORK_STATE_CONNECTED
    /\ last.op = "update" /\ last.node = Engine
    /\ Len(Dispatched(trace)) = 1 /\ Dispatched(trace)[1].type = MSG_JOIN_RESPONSE

\* the context fields a dispatch can change: all but the receive statistics
Dispatchable(ctx) == [ctx EXCEPT !.bytes_received = 0, !.messages_received = 0]

\* C3: an update of a Hosting session with fewer than 8 roster entries that
\* dispatches one JoinRequest appends exactly one peer holding the sender's
\* address and port, sends exactly one JoinResponse carrying that peer's id to
\* the sender, and fires on_player_joined once with that id and name (when the
\* callback is registered); in a session that is not Hosting the dispatch changes
\* nothing but the receive statistics, sends nothing and fires no callback.
JoinRequestProcessed(n) ==
    LET d == Dispatched(trace')[1]
        new == g'[n].players[Len(g'[n].players)]
        joined == Events(trace', "on_player_joined")
    IN  /\ (g[n].state = NETWORK_STATE_HOSTING /\ player_count(g[n]) < NETWORK_MAX_PLAYERS) =>
              /\ Len(g'[n].players) = Len(g[n].players) + 1
              /\ SubSeq(g'[n].players, 1, Len(g[n].players)) = g[n].players
              /\ new.ip_address = d.ip /\ new.port = d.port
              /\ Len(Sent(trace')) = 1
              /\ Sent(trace')[1].type = MSG_JOIN_RESPONSE
              /\ Sent(trace')[1].ip = d.ip /\ Sent(trace')[1].port = d.port
              /\ Sent(trace')[1].payload = U32Payload(new.player_id)
              /\ IF "on_player_joined" \in callbacks[n]
                 THEN joined = <<[op |-> "on_player_joined", id |-> new.player_id,
                                  name |-> new.name]>>
                 ELSE joined = <<>>
        /\ (g[n].state # NETWORK_STATE_HOSTING) =>
              /\ Dispatchable(g'[n]) = Dispatchable(g[n])
              /\ id_counter' = id_counter
              /\ Sent(trace') = <<>>
              /\ \A i \in 1..Len(trace') : trace'[i].op \notin CallbackNames
C3_JoinRequestProcessing ==
    [][\A n \in Node : DispatchedOne(n, MSG_JOIN_REQUEST) => JoinRequestProcessed(n)]_vars
C3_Witness ==
    /\ last.op = "update" /\ g[last.node].state = NETWORK_STATE_HOSTING
    /\ Len(Dispatched(trace)) = 1 /\ Dispatched(trace)[1].type = MSG_JOIN_REQUEST
    /\ Len(Sent(trace)) = 1 /\ Sent(trace)[1].sent
    /\ Len(Events(trace, "on_player_joined")) = 1

\* C4: the roster never holds more than 8 peers, and an update that dispatches
\* one JoinRequest while the roster holds 8 leaves the roster as it was, sends no
\* JoinResponse and fires no on_player_joined.
FullRosterRejects(n) ==
    (player_count(g[n]) = NETWORK_MAX_PLAYERS /\ DispatchedOne(n, MSG_JOIN_REQUEST)) =>
        /\ g'[n].players = g[n].players
        /\ Sent(trace') = <<>>
        /\ Events(trace', "on_player_joined") = <<>>
C4_RosterCapacity ==
    /\ [](\A n \in Node : player_count(g[n]) \in 0..NETWORK_MAX_PLAYERS)
    /\ [][\A n \in Node : FullRosterRejects(n)]_vars
C4_Witness ==
    /\ last.op = "update" /\ player_count(g[Engine]) = NETWORK_MAX_PLAYERS
    /\ "on_player_joined" \in callbacks[Engine]
    /\ Len(trace) = 1 /\ trace[1].op = "dispatch" /\ trace[1].type = MSG_JOIN_REQUEST

\* C5: no two entries that are in the roster at the same time have the same
\* player id.
C5_UniquePlayerIds ==
    \A n \in Node : \A i, j \in 1..player_count(g[n]) :
        i # j => g[n].players[i].player_id # g[n].players[j].player_id

\* C6: every id the host assigns to a roster peer is different from 0.
C6_AssignedIdsNonZero ==
    \A n \in Node : \A i \in 1..player_count(g[n]) : g[n].players[i].player_id # Zero32

\* C7: an update of a host that dispatches one PlayerDisconnect whose sender
\* address and port match a roster entry fires on_player_left once (when the
\* callback is registered) with that entry's id while the roster still holds it,
\* and removes that one entry, the others keeping their order; when no entry
\* matches, the roster is unchanged and on_player_left is not fired.
PeerRemoved(n) ==
    LET d == Dispatched(trace')[1]
        old == g[n].players
        left == Events(trace', "on_player_left")
        hits == {i \in 1..Len(old) : old[i].ip_address = d.ip /\ old[i].port = d.port}
    IN  IF hits = {}
        THEN g'[n].players = old /\ left = <<>>
        ELSE \E i \in hits :
                /\ \A j \in hits : i <= j
                /\ Len(g'[n].players) = Len(old) - 1
                /\ \A j \in 1..(Len(old) - 1) :
                      g'[n].players[j] = IF j < i THEN old[j] ELSE old[j + 1]
                /\ IF "on_player_left" \in callbacks[n]
                   THEN left = <<[op |-> "on_player_left", id |-> old[i].player_id,
                                  count |-> Len(old)]>>
                   ELSE left = <<>>
C7_PeerRemoval ==
    [][\A n \in Node : (g[n].is_host # 0 /\ DispatchedOne(n, MSG_PLAYER_DISCONNECT))
                          => PeerRemoved(n)]_vars
C7_Witness ==
    /\ last.op = "update"
    /\ Len(Dispatched(trace)) = 1 /\ Dispatched(trace)[1].type = MSG_PLAYER_DISCONNECT
    /\ Len(Events(trace, "on_player_left")) = 1
    /\ Events(trace, "on_player_left")[1].count >= 3
    /\ player_count(g[Engine]) = Events(trace, "on_player_left")[1].count - 1
    /\ Events(trace, "on_player_left")[1].id # g[Engine].players[1].player_id
    /\ \E i \in 1..player_count(g[Engine]) :
          /\ g[Engine].players[i].ip_address = Dispatched(trace)[1].ip
          /\ g[Engine].players[i].port = Dispatched(trace)[1].port

\* C8: a disconnect called in state Connected transmits a player-disconnect
\* notification before it closes its sockets.
ClientNotifiesHost(n) ==
    (g[n].state = NETWORK_STATE_CONNECTED /\ last'.op = "disconnect" /\ last'.node = n) =>
        \E i \in 1..Len(trace') :
            /\ trace'[i].op = "sendto" /\ trace'[i].type = MSG_PLAYER_DISCONNECT
            /\ \A j \in 1..Len(trace') : trace'[j].op = "close" => i < j
C8_ClientDisconnectNotifies == [][\A n \in Node : ClientNotifiesHost(n)]_vars

\* C9: a disconnect called in state Hosting sends one PlayerDisconnect to each
\* roster peer, in roster order, on the session socket while that socket is open,
\* and closes the sockets only after the last of them; afterwards the state is
\* Disconnected, both socket handles are invalid and their sockets closed, the
\* roster is empty and the engine is not in the host role.  A disconnect called in
\* state Connecting or Connected also ends in Disconnected with both handles
\* invalid.
Released(n) ==
    /\ g'[n].state = NETWORK_STATE_DISCONNECTED
    /\ g'[n].server_socket = INVALID_SOCKET_VALUE
    /\ g'[n].broadcast_socket = INVALID_SOCKET_VALUE
    /\ \A fd \in {g[n].server_socket, g[n].broadcast_socket} \ {INVALID_SOCKET_VALUE} :
          /\ ~IsOpen(sockets', n, fd)
          /\ Len(SelectSeq(trace', LAMBDA e : e.op = "close" /\ e.fd = fd)) = 1
HostDisconnects(n) ==
    /\ IsOpen(sockets, n, g[n].server_socket)
    /\ Len(Sent(trace')) = player_count(g[n])
    /\ \A i \in 1..player_count(g[n]) :
          /\ Sent(trace')[i].type = MSG_PLAYER_DISCONNECT
          /\ Sent(trace')[i].fd = g[n].server_socket
          /\ Sent(trace')[i].ip = g[n].players[i].ip_address
          /\ Sent(trace')[i].port = g[n].players[i].port
    /\ \A i, j \in 1..Len(trace') :
          (trace'[i].op = "sendto" /\ trace'[j].op = "close") => i < j
    /\ Released(n)
    /\ g'[n].players = <<>>
    /\ g'[n].is_host = 0
DisconnectResult(n) ==
    (last'.op = "disconnect" /\ last'.node = n) =>
        /\ g[n].state = NETWORK_STATE_HOSTING => HostDisconnects(n)
        /\ g[n].state \in {NETWORK_STATE_CONNECTING, NETWORK_STATE_CONNECTED} => Released(n)
C9_HostDisconnect == [][\A n \in Node : DisconnectResult(n)]_vars
C9_Witness ==
    /\ last.op = "disconnect" /\ g[last.node].state = NETWORK_STATE_DISCONNECTED
    /\ Len(Sent(trace)) = 2 /\ Len(Closed(trace)) = 2
    /\ Sent(trace)[1].sent /\ Sent(trace)[2].sent

\* C10: while the session state is Disconnected, send_game_state, send_turn_data,
\* send_chat, send_to_all and send_to_player return 0, call sendto not once, queue
\* no datagram anywhere, and leave the sequence counter and the sent statistics
\* as they were.
SendOps == {"send_game_state", "send_turn_data", "send_chat", "send_to_all", "send_to_player"}
SendRefused(n) ==
    (g[n].state = NETWORK_STATE_DISCONNECTED /\ last'.op \in SendOps /\ last'.node = n) =>
        /\ last'.ret = 0
        /\ trace' = <<>>
        /\ sockets' = sockets
        /\ g'[n].next_sequence = g[n].next_sequence
        /\ g'[n].bytes_sent = g[n].bytes_sent
        /\ g'[n].messages_sent = g[n].messages_sent
C10_SendsGatedWhenDisconnected == [][\A n \in Node : SendRefused(n)]_vars
C10_Witness ==
    /\ last.op \in SendOps /\ last.ret = 0
    /\ g[last.node].state = NETWORK_STATE_DISCONNECTED
    /\ g[last.node].server_socket # INVALID_SOCKET_VALUE
    /\ g[last.node].messages_sent > 0

\* C11: in state Connected, send_game_state and send_turn_data (and send_chat,
\* which takes the same path through network_send_to_all) put the payload in a
\* datagram and return a non-failure result when the transport accepts it.
ConnectedSendTransmits(n) ==
    (/\ g[n].state = NETWORK_STATE_CONNECTED
     /\ last'.op \in {"send_game_state", "send_turn_data"} /\ last'.node = n) =>
        /\ Len(Sent(trace')) >= 1
        /\ (\A i \in 1..Len(Sent(trace')) : Sent(trace')[i].sent) => last'.ret # 0
C11_ConnectedClientSends == [][\A n \in Node : ConnectedSendTransmits(n)]_vars

\* C12: a host or join called in state Disconnected that returns failure leaves
\* the state Disconnected, the session handle invalid, the discovery handle
\* invalid or as it was, and no socket open that was not open before the call.
SetupFailureReleases(n) ==
    (/\ g[n].state = NETWORK_STATE_DISCONNECTED
     /\ last'.op \in {"host", "join"} /\ last'.node = n /\ last'.ret = 0) =>
        /\ g'[n].state = NETWORK_STATE_DISCONNECTED
        /\ g'[n].server_socket = INVALID_SOCKET_VALUE
        /\ g'[n].broadcast_socket \in {INVALID_SOCKET_VALUE, g[n].broadcast_socket}
        /\ \A fd \in Fds : IsOpen(sockets', n, fd) => IsOpen(sockets, n, fd)
C12_SetupFailureAtomic == [][\A n \in Node : SetupFailureReleases(n)]_vars

\* C13: host or join called in a state other than Disconnected returns failure
\* and leaves the whole context, the sockets and the id counter as they were,
\* calling neither sendto nor close.
MisuseChangesNothing(n) ==
    (/\ g[n].state # NETWORK_STATE_DISCONNECTED
     /\ last'.op \in {"host", "join"} /\ last'.node = n) =>
        /\ last'.ret = 0
        /\ g'[n] = g[n]
        /\ sockets' = sockets
        /\ id_counter' = id_counter
        /\ trace' = <<>>
C13_MisuseNoSideEffects == [][\A n \in Node : MisuseChangesNothing(n)]_vars
C13_Witness ==
    /\ last.op \in {"host", "join"} /\ last.ret = 0
    /\ g[last.node].state = NETWORK_STATE_CONNECTED
    /\ player_count(g[last.node]) = 0 /\ g[last.node].messages_sent >= 1

\* a datagram the codec has to reject
Malformed(d) ==
    \/ d.received < HEADER_SIZE
    \/ d.magic # <<76, 73, 66, 67>>
    \/ d.version # <<0, NETWORK_PROTOCOL_VERSION>>
    \/ ntohl(d.size)[1] > 0
    \/ ntohl(d.size)[2] > NETWORK_MAX_MESSAGE_SIZE
    \/ ntohl(d.size)[2] # d.received - HEADER_SIZE
\* the datagrams an update of n reads: the first one queued on each of its sockets
Heads(n) ==
    LET head(fd) == IF IsOpen(sockets, n, fd) /\ sockets[n][fd].inbox # <<>>
                    THEN <<Head(sockets[n][fd].inbox)>> ELSE <<>>
    IN  head(g[n].server_socket) \o head(g[n].broadcast_socket)

\* C14: an update counts one error for every malformed datagram it reads and
\* counts it neither as a message nor in the bytes received; it dispatches only
\* the well-formed ones, and when all it read was malformed the state, the
\* roster and the registry are as before.
RejectsMalformed(n) ==
    LET bad == SelectSeq(Heads(n), Malformed)
        good == SelectSeq(Heads(n), LAMBDA d : ~Malformed(d))
    IN  (/\ g[n].state # NETWORK_STATE_DISCONNECTED
         /\ last'.op = "update" /\ last'.node = n) =>
            /\ g'[n].errors = g[n].errors + Len(bad)
            /\ g'[n].messages_received = g[n].messages_received + Len(good)
            /\ Len(Dispatched(trace')) = Len(good)
            /\ good = <<>> =>
                  /\ g'[n].bytes_received = g[n].bytes_received
                  /\ g'[n].state = g[n].state
                  /\ g'[n].players = g[n].players
                  /\ g'[n].discovered_games = g[n].discovered_games
C14_CodecRejection == [][\A n \in Node : RejectsMalformed(n)]_vars

\* what _network_receive_message of process n returns for datagram d alone in the
\* queue of its descriptor fd
Decoded(n, fd, d) ==
    network_receive_message(
        [World(n, Quiet) EXCEPT !.net = [sockets' EXCEPT ![n][fd].inbox = <<d>>]],
        n, fd, "server")

\* the datagram the step put last in the queue of the socket bound to ip:port
Arrived(ip, port) ==
    {<<fd, sockets'[ip][fd].inbox[Len(sockets'[ip][fd].inbox)]>> :
        fd \in {x \in Fds : /\ sockets'[ip][x].open /\ sockets'[ip][x].port = port
                             /\ Len(sockets'[ip][x].inbox) > Len(sockets[ip][x].inbox)}}

FrameRoundTrip(ev) ==
    /\ Arrived(ev.ip, ev.port) # {}
    /\ \A a \in Arrived(ev.ip, ev.port) :
          LET r == Decoded(ev.ip, a[1], a[2])
          IN  /\ r.ret = 1
              /\ r.rx.type = ev.type
              /\ r.rx.size = PayloadSize(ev.payload)
              /\ PayloadBytes(r.rx.data) = PayloadBytes(ev.payload)

\* C15: every frame the send side transmits, of any message type and any payload
\* of 0..NETWORK_MAX_MESSAGE_SIZE bytes, is accepted unmodified by the receive
\* side and decoded to the same type, the same payload length and the same
\* payload bytes.
C15_CodecRoundTrip ==
    [][last'.op = "send_to_all" =>
          \A i \in 1..Len(Sent(trace')) :
              Sent(trace')[i].sent => FrameRoundTrip(Sent(trace')[i])]_vars

\* the client has read and dispatched a frame of the largest payload
C15_Witness ==
    /\ last.op = "update" /\ last.node = ClientNode
    /\ \E i \in 1..Len(Dispatched(trace)) :
          /\ Dispatched(trace)[i].type = MSG_ERROR
          /\ PayloadSize(Dispatched(trace)[i].data) = NETWORK_MAX_MESSAGE_SIZE
          /\ PayloadBytes(Dispatched(trace)[i].data) = Ramp(NETWORK_MAX_MESSAGE_SIZE)

\* the registry entries of process n whose session id is id
EntriesOf(n, id) ==
    {i \in 1..discovered_game_count(g[n]) : g[n].discovered_games[i].game_id = id}

\* the step was an update of n that dispatched one well-formed discovery response
DispatchedAdvert(n) ==
    /\ last'.op = "update" /\ last'.node = n
    /\ Len(Dispatched(trace')) = 1
    /\ Dispatched(trace')[1].type = MSG_DISCOVERY_RESPONSE
    /\ PayloadSize(Dispatched(trace')[1].data) = SIZEOF_GAME_INFO

\* the registry of n after the step is the one before with entry i replaced by
\* the advertisement dispatched, stamped with the time of receipt
OverwrittenInPlace(n, i) ==
    g'[n].discovered_games =
        [g[n].discovered_games EXCEPT
            ![i] = [Dispatched(trace')[1].data.v EXCEPT !.last_seen = get_timestamp(now)]]

RegistryDedup(n) ==
    DispatchedAdvert(n) =>
        \A i \in EntriesOf(n, Dispatched(trace')[1].data.v.game_id) : OverwrittenInPlace(n, i)

\* C16: no two registry entries have the same session id, and a discovery
\* response whose session id is that of an entry replaces that entry with the new
\* values and leaves the size of the registry and its other entries as they were.
C16_RegistryDedup ==
    /\ [](\A n \in Node : \A id \in {g[n].discovered_games[i].game_id :
                                i \in 1..discovered_game_count(g[n])} :
             Cardinality(EntriesOf(n, id)) = 1)
    /\ [][\A n \in Node : RegistryDedup(n)]_vars

RegistryAtCapacity(n) ==
    (DispatchedAdvert(n) /\ discovered_game_count(g[n]) = MAX_DISCOVERED_GAMES) =>
        IF EntriesOf(n, Dispatched(trace')[1].data.v.game_id) = {}
        THEN g'[n].discovered_games = g[n].discovered_games
        ELSE \A i \in EntriesOf(n, Dispatched(trace')[1].data.v.game_id) :
                OverwrittenInPlace(n, i)

\* C17: the registry never holds more than 16 entries; when it holds 16, a
\* response with the session id of an entry still replaces that entry, and a
\* response with a new session id leaves the registry as it was.
C17_RegistryAtCapacity ==
    /\ [](\A n \in Node : discovered_game_count(g[n]) <= MAX_DISCOVERED_GAMES)
    /\ [][\A n \in Node : RegistryAtCapacity(n)]_vars

\* process n is Disconnected with discovery started, and the next datagram its
\* discovery socket holds is a well-formed discovery response of the Hosting
\* HostNode
ResponseDelivered(n) ==
    /\ g[n].state = NETWORK_STATE_DISCONNECTED
    /\ g[HostNode].state = NETWORK_STATE_HOSTING
    /\ IsOpen(sockets, n, g[n].broadcast_socket)
    /\ sockets[n][g[n].broadcast_socket].inbox # <<>>
    /\ LET d == Head(sockets[n][g[n].broadcast_socket].inbox)
       IN  /\ ~Malformed(d)
           /\ ntohs(d.type) = MSG_DISCOVERY_RESPONSE
           /\ d.payload.tag = "game_info"
           /\ d.src_ip = HostNode
           /\ d.payload.v.game_id = g[HostNode].game_id

\* C18: when a Disconnected client that started discovery has a valid discovery
\* response of a Hosting session waiting on its discovery socket, its next
\* network_update() records that session, and network_get_discovered_games
\* returns it.
C18_DiscoveryEndToEnd ==
    [][\A n \in Node :
          (ResponseDelivered(n) /\ last'.op = "update" /\ last'.node = n) =>
              \E i \in 1..Len(network_get_discovered_games(g'[n], MAX_DISCOVERED_GAMES)) :
                  network_get_discovered_games(g'[n], MAX_DISCOVERED_GAMES)[i].game_id
                      = g[HostNode].game_id]_vars

Requests == SelectSeq(Dispatched(trace'), LAMBDA e : e.type = MSG_DISCOVERY_REQUEST)

Responses == SelectSeq(Sent(trace'), LAMBDA e : e.type = MSG_DISCOVERY_RESPONSE)

\* e is a discovery response on the discovery socket of n, addressed to the sender
\* of request r and to no broadcast address, that advertises the session of n
AdvertisesSession(n, e, r) ==
    /\ e.fd = g[n].broadcast_socket
    /\ e.ip = r.ip /\ e.port = r.port
    /\ e.ip # INADDR_BROADCAST
    /\ e.payload.tag = "game_info"
    /\ e.payload.v.game_id = g[n].game_id
    /\ e.payload.v.host_port = g[n].local_port
    /\ e.payload.v.max_players = 8

\* an update dispatches at most two messages: the roster at the first dispatch is
\* the one before the step, the roster at the last dispatch, when that is a
\* discovery request, the one after the step
DiscoveryReply(n) ==
    (last'.op = "update" /\ last'.node = n /\ Requests # <<>>) =>
        IF g[n].state = NETWORK_STATE_HOSTING
        THEN /\ Len(Responses) = Len(Requests)
             /\ \A i \in 1..Len(Requests) : AdvertisesSession(n, Responses[i], Requests[i])
             /\ Dispatched(trace')[1].type = MSG_DISCOVERY_REQUEST =>
                   Responses[1].payload.v.current_players = player_count(g[n])
             /\ Dispatched(trace')[Len(Dispatched(trace'))].type = MSG_DISCOVERY_REQUEST =>
                   Responses[Len(Responses)].payload.v.current_players = player_count(g'[n])
        ELSE \A i \in 1..Len(Sent(trace')) :
                /\ Sent(trace')[i].type # MSG_DISCOVERY_RESPONSE
                /\ \A j \in 1..Len(Requests) :
                      ~(Sent(trace')[i].ip = Requests[j].ip /\ Sent(trace')[i].port = Requests[j].port)

\* C19: a process that dispatches a discovery request replies only when it is
\* Hosting: with exactly one discovery response, sent on the discovery socket to
\* the requester's own address, that carries its session id, its session port,
\* the roster size at that moment and max_players 8; in any other state it sends
\* the requester nothing.
C19_DiscoveryReply == [][\A n \in Node : DiscoveryReply(n)]_vars

\* the host has answered a discovery request while one player was in its roster
C19_Witness ==
    /\ last.op = "update" /\ last.node = HostNode
    /\ player_count(g[HostNode]) = 1
    /\ \E i \in 1..Len(Sent(trace)) :
          /\ Sent(trace)[i].type = MSG_DISCOVERY_RESPONSE
          /\ Sent(trace)[i].sent
          /\ Sent(trace)[i].ip = ClientNode
          /\ Sent(trace)[i].payload.v.current_players = 1

\* the re-broadcast is due for process n: it acts as a client, its discovery
\* socket is open, it is not yet Connected, and more than the interval has passed
RebroadcastDue(n) ==
    /\ g[n].is_host = 0
    /\ g[n].broadcast_socket # INVALID_SOCKET_VALUE
    /\ g[n].state \in {NETWORK_STATE_DISCONNECTED, NETWORK_STATE_CONNECTING}
    /\ Gt32(Sub32(get_timestamp(now), g[n].last_discovery_time), NETWORK_DISCOVERY_INTERVAL)

DiscoveryRequestsSent ==
    SelectSeq(Sent(trace'), LAMBDA e : e.type = MSG_DISCOVERY_REQUEST)

\* C20: a network_update() sends one discovery request and sets the time of the
\* last broadcast to the current time exactly when the re-broadcast is due; a
\* Connected or hosting process sends none.
C20_AutoRebroadcast ==
    [][\A n \in Node :
          (last'.op = "update" /\ last'.node = n) =>
              IF RebroadcastDue(n)
              THEN /\ Len(DiscoveryRequestsSent) = 1
                   /\ g'[n].last_discovery_time = get_timestamp(now)
              ELSE DiscoveryRequestsSent = <<>>]_vars

\* the context of n after the step holds no session: no registry entry, no roster
\* entry, both handles invalid and no descriptor of n open
ContextReset(n) ==
    /\ network_get_discovered_games(g'[n], MAX_DISCOVERED_GAMES) = <<>>
    /\ g'[n].players = <<>>
    /\ g'[n].server_socket = INVALID_SOCKET_VALUE
    /\ g'[n].broadcast_socket = INVALID_SOCKET_VALUE
    /\ \A fd \in Fds : ~sockets'[n][fd].open

\* C21: after network_disconnect() called in Hosting, Connecting or Connected the
\* discovery registry is empty, the roster is empty and the sockets are closed.
C21_DisconnectResetsContext ==
    [][\A n \in Node :
          (/\ last'.op = "disconnect" /\ last'.node = n
           /\ g[n].state \in {NETWORK_STATE_HOSTING, NETWORK_STATE_CONNECTING,
                              NETWORK_STATE_CONNECTED}) => ContextReset(n)]_vars

JoinResponseGated(n) ==
    DispatchedOne(n, MSG_JOIN_RESPONSE) =>
        IF /\ g[n].state = NETWORK_STATE_CONNECTING
           /\ PayloadSize(Dispatched(trace')[1].data) = SIZEOF_UINT32
        THEN /\ g'[n].state = NETWORK_STATE_CONNECTED
             /\ g'[n].local_player_id = PayloadAsU32(Dispatched(trace')[1].data)
        ELSE /\ g'[n].state = g[n].state
             /\ g'[n].local_player_id = g[n].local_player_id

AttributedTo(players, ip, port, id) ==
    LET same == {i \in 1..Len(players) :
                    players[i].ip_address = ip /\ players[i].port = port}
    IN  IF same = {} THEN id = Zero32
        ELSE \E i \in same : (\A j \in same : i <= j) /\ id = players[i].player_id

Callbacks(tr) == SelectSeq(tr, LAMBDA e : e.op \in CallbackNames)

PayloadAttribution(n) ==
    LET e == Dispatched(trace')[1]
        cb == Callbacks(trace')
    IN  /\ (DispatchedOne(n, MSG_GAME_DATA) /\ "on_game_data" \in callbacks[n]) =>
              /\ Len(cb) = 1 /\ cb[1].op = "on_game_data"
              /\ AttributedTo(g[n].players, e.ip, e.port, cb[1].id)
              /\ PayloadBytes(cb[1].data) = PayloadBytes(e.data)
              /\ cb[1].size = PayloadSize(e.data)
        /\ (DispatchedOne(n, MSG_CHAT) /\ "on_chat" \in callbacks[n]
               /\ PayloadSize(e.data) > 0) =>
              /\ Len(cb) = 1 /\ cb[1].op = "on_chat"
              /\ AttributedTo(g[n].players, e.ip, e.port, cb[1].id)
              /\ cb[1].message = CStringOfBytes(PayloadBytes(e.data))
        /\ (DispatchedOne(n, MSG_GAME_DATA) \/ DispatchedOne(n, MSG_CHAT)) =>
              /\ g'[n].players = g[n].players
              /\ g'[n].discovered_games = g[n].discovered_games
              /\ g'[n].state = g[n].state

\* C23: the handler of a dispatched game-data or chat message receives the id of
\* the first roster entry with the sender's address and port, or 0, and the
\* payload as it arrived: its bytes and length for game data, the string it holds
\* for chat; the dispatch changes neither the roster, the registry nor the state.
C23_PayloadAttribution == [][\A n \in Node : PayloadAttribution(n)]_vars

\* what a call leaves behind apart from the handlers it invoked: the context, the
\* id counter, every socket and queue, its result, and its sendto and close calls
Effects(w) ==
    [ctx |-> w.ctx, counter |-> w.counter, net |-> w.net, ret |-> w.ret,
     calls |-> SelectSeq(w.trace, LAMBDA e : e.op \notin CallbackNames)]

\* network_update() of process n in the current state with the handlers cbs registered
UpdateWith(n, cbs, t) ==
    network_update([World(n, WithStale(Quiet, t)) EXCEPT !.cbs = cbs], n)

\* C24: in every reachable state, whatever handlers are registered there, what
\* network_update() does to the context, the statistics, the sockets and the wire
\* is what it does with no handler and with every handler registered, and it
\* invokes no handler that is not registered; no other call reads the handlers.
C24_CallbacksDoNotInterfere ==
    \A n \in Node, t \in StaleTails :
        \A some \in {UpdateWith(n, callbacks[n], t)},
           none \in {UpdateWith(n, {}, t)},
           all \in {UpdateWith(n, CallbackNames, t)} :
            /\ Effects(some) = Effects(none)
            /\ Effects(all) = Effects(none)
            /\ \A i \in 1..Len(some.trace) :
                  some.trace[i].op \in CallbackNames => some.trace[i].op \in callbacks[n]
            /\ \A i \in 1..Len(none.trace) : none.trace[i].op \notin CallbackNames

\* with some handlers registered and others not, an update has invoked one and
\* has removed a player
C24_Witness ==
    /\ last.op = "update" /\ last.node = Engine
    /\ callbacks[Engine] = {"on_player_left", "on_chat"}
    /\ \E i \in 1..Len(trace) : trace[i].op = "on_player_left"
    /\ g[Engine].players = <<>>

(***************************************************************************)
(* C25: a receive that would block reports "no data" (0), dispatches       *)
(* nothing and leaves the error counter alone; a receive or a send that    *)
(* fails for another reason adds one to the error counter and reports      *)
(* failure (-1 for the receive, 0 for the send); neither changes the       *)
(* state, the roster or the registry.  Stated of the three functions at    *)
(* every reachable state and for every set of failing sockets.             *)
(***************************************************************************)
SessionOf(ctx) == <<ctx.state, ctx.players, ctx.discovered_games, ctx.local_player_id>>

PolledSockets(n) ==
    {s \in {<<g[n].server_socket, "server">>, <<g[n].broadcast_socket, "broadcast">>} :
        s[1] # INVALID_SOCKET_VALUE}

ReceiveOutcome(n, rx) ==
    \A s \in PolledSockets(n) :
        \A r \in {network_receive_message(World(n, Env({}, AnyPort, rx, NoFault)), n, s[1], s[2])} :
            IF s[2] \in rx
            THEN /\ r.ret = -1
                 /\ r.ctx = [g[n] EXCEPT !.errors = @ + 1]
                 /\ r.net = sockets
                 /\ r.trace = <<>>
            ELSE sockets[n][s[1]].inbox = <<>> =>
                 /\ r.ret = 0
                 /\ r.ctx = g[n]
                 /\ r.net = sockets
                 /\ r.trace = <<>>

UpdateOutcome(n, rx) ==
    (/\ g[n].state # NETWORK_STATE_DISCONNECTED
     /\ \A s \in PolledSockets(n) : s[2] \in rx \/ sockets[n][s[1]].inbox = <<>>)
    => \A u \in {network_update(World(n, Env({}, AnyPort, rx, NoFault)), n)} :
           /\ Dispatched(u.trace) = <<>>
           /\ Callbacks(u.trace) = <<>>
           /\ u.ctx.errors = g[n].errors + Cardinality({s \in PolledSockets(n) : s[2] \in rx})
           /\ SessionOf(u.ctx) = SessionOf(g[n])
           /\ u.ctx.messages_received = g[n].messages_received
           /\ \A fd \in Fds : u.net[n][fd] = sockets[n][fd]

SendFailureOutcome(n) ==
    g[n].server_socket # INVALID_SOCKET_VALUE =>
        \A r \in {network_send_message(World(n, Env({1}, AnyPort, {}, NoFault)), n,
                                       g[n].server_socket, ForeignIp, 5000,
                                       MSG_GAME_DATA, NoPayload)} :
            /\ r.ret = 0
            /\ r.ctx = [g[n] EXCEPT !.errors = @ + 1, !.next_sequence = @ + 1]
            /\ r.net = sockets

C25_FailureOutcomes ==
    \A n \in Node :
        /\ SendFailureOutcome(n)
        /\ \A rx \in RxFaults : ReceiveOutcome(n, rx) /\ UpdateOutcome(n, rx)

\* an update of a host met one failing recvfrom and nothing else: no frame was
\* ever sent or received, one error is counted, the host still hosts
C25_Witness ==
    /\ last.op = "update" /\ last.node = Engine
    /\ g[Engine].state = NETWORK_STATE_HOSTING
    /\ g[Engine].errors = 1
    /\ g[Engine].next_sequence = 1
    /\ g[Engine].messages_received = 0
    /\ trace = <<>>

(***************************************************************************)
(* C27: a framed send succeeds only when the payload is at most            *)
(* NETWORK_MAX_MESSAGE_SIZE bytes and sendto returned the full length of   *)
(* header and payload; each success adds 1 to messages_sent and header +   *)
(* payload length to bytes_sent and leaves errors alone; each sendto that  *)
(* returns anything else adds 1 to errors and nothing to the two send      *)
(* counters; no payload above the maximum reaches sendto.                  *)
(***************************************************************************)
RECURSIVE WireBytes(_)
WireBytes(evs) ==
    IF evs = <<>> THEN 0
    ELSE HEADER_SIZE + PayloadSize(Head(evs).payload) + WireBytes(Tail(evs))

Transmitted(tr) == SelectSeq(Sent(tr), LAMBDA e : e.sent)
NotTransmitted(tr) == SelectSeq(Sent(tr), LAMBDA e : ~e.sent)

SendAccounting(n) ==
    last'.node = n /\ last'.op \notin {"tick", "lan_send"} =>
        /\ \A i \in 1..Len(Sent(trace')) :
              PayloadSize(Sent(trace')[i].payload) <= NETWORK_MAX_MESSAGE_SIZE
        /\ g'[n].messages_sent = g[n].messages_sent + Len(Transmitted(trace'))
        /\ g'[n].bytes_sent = g[n].bytes_sent + WireBytes(Transmitted(trace'))
        /\ last'.op \in SendOps =>
              /\ g'[n].errors = g[n].errors + Len(NotTransmitted(trace'))
              /\ last'.ret = Len(Transmitted(trace'))
              /\ Len(Sent(trace')) <= player_count(g[n])

C27_SendAccounting == [][\A n \in Node : SendAccounting(n)]_vars

\* after an earlier failed send, the host has sent a frame with a payload of
\* exactly the maximum size
C27_Witness ==
    /\ last.op = "send_to_all" /\ last.node = HostNode /\ last.ret = 1
    /\ g[HostNode].errors >= 1
    /\ Len(trace) = 1
    /\ trace[1].op = "sendto" /\ trace[1].sent
    /\ PayloadSize(trace[1].payload) = NETWORK_MAX_MESSAGE_SIZE

(***************************************************************************)
(* C26: a game hosted from the setup screen never holds more players than  *)
(* the screen's "Max Players" value, and every discovery response of the   *)
(* host advertises that value as max_players.                              *)
(***************************************************************************)
AdvertisedLimits(tr) ==
    {Sent(tr)[i].payload.v.max_players :
        i \in {j \in 1..Len(Sent(tr)) : Sent(tr)[j].type = MSG_DISCOVERY_RESPONSE}}

C26_ConfiguredPlayerLimit ==
    \A n \in Node :
        g[n].state = NETWORK_STATE_HOSTING =>
            /\ player_count(g[n]) <= host_max_players
            /\ last.node = n => AdvertisedLimits(trace) \subseteq {host_max_players}

(***************************************************************************)
(* C28: next_sequence is 1 after initialization; the frames one call hands *)
(* to sendto carry next_sequence, next_sequence + 1, ... in the order of   *)
(* the calls, whether or not sendto succeeds, and the counter advances by  *)
(* exactly the number of those frames; so host, join and disconnect never  *)
(* reset or decrease it, and an attempt that frames nothing leaves it.     *)
(***************************************************************************)
SequenceAdvances(n) ==
    last'.node = n /\ last'.op \notin {"tick", "lan_send"} =>
        /\ \A i \in 1..Len(Sent(trace')) :
              Sent(trace')[i].sequence = g[n].next_sequence + i - 1
        /\ g'[n].next_sequence = g[n].next_sequence + Len(Sent(trace'))

C28_SequenceNumbers ==
    /\ \A n \in Node : g[n].next_sequence = 1
    /\ [][\A n \in Node : SequenceAdvances(n) /\ g'[n].next_sequence >= g[n].next_sequence]_vars

\* after two join attempts whose sendto failed, the engine hosts: the counter
\* kept the two failed attempts
C28_Witness ==
    /\ last.op = "host" /\ last.node = Engine /\ last.ret = 1
    /\ g[Engine].next_sequence = 3
    /\ g[Engine].messages_sent = 0

(***************************************************************************)
(* C29: no two roster entries have the same address and port, whatever     *)
(* join requests (repeated ones included) and disconnects the host has     *)
(* processed; a datagram's source then identifies at most one peer.        *)
(***************************************************************************)
C29_AddressIsRosterKey ==
    \A n \in Node :
        \A i, j \in 1..player_count(g[n]) :
            (/\ g[n].players[i].ip_address = g[n].players[j].ip_address
             /\ g[n].players[i].port = g[n].players[j].port) => i = j

(***************************************************************************)
(* C30: with the session socket open, send_to_player(id) makes exactly one *)
(* sendto, to the address and port of the roster entry with that id, and   *)
(* returns 0 without any sendto when no entry has the id; send_to_all      *)
(* makes exactly one sendto per connected roster entry, in roster order,   *)
(* and returns the number that succeeded; neither changes the roster.      *)
(* Stated of the two functions at every reachable state, for payloads      *)
(* within the size bound and every pattern of failing sendto calls.        *)
(***************************************************************************)
FanOutFails == SUBSET {1, 2}

ConnectedEntries(ctx) == SelectSeq(ctx.players, LAMBDA p : p.connected # 0)

SentTo(e, p, sock) ==
    /\ e.op = "sendto" /\ e.fd = sock
    /\ e.ip = p.ip_address /\ e.port = p.port

SendToPlayerOutcome(n, id, f) ==
    \A r \in {network_send_to_player(World(n, Env(f, AnyPort, {}, NoFault)), n, id,
                                     MSG_GAME_DATA, StrPayload(StrNova))} :
        LET found == {i \in 1..player_count(g[n]) : g[n].players[i].player_id = id}
        IN  /\ r.ctx.players = g[n].players
            /\ IF found = {}
               THEN r.trace = <<>> /\ r.ret = 0 /\ r.ctx = g[n] /\ r.net = sockets
               ELSE /\ Len(r.trace) = 1
                    /\ \E i \in found :
                          /\ \A j \in found : i <= j
                          /\ SentTo(r.trace[1], g[n].players[i], g[n].server_socket)
                    /\ r.trace[1].type = MSG_GAME_DATA
                    /\ r.trace[1].payload = StrPayload(StrNova)
                    /\ r.ret = IF r.trace[1].sent THEN 1 ELSE 0

SendToAllOutcome(n, f) ==
    \A r \in {network_send_to_all(World(n, Env(f, AnyPort, {}, NoFault)), n,
                                  MSG_GAME_DATA, StrPayload(StrNova))} :
        LET to == ConnectedEntries(g[n])
        IN  /\ r.ctx.players = g[n].players
            /\ Len(r.trace) = Len(to)
            /\ \A k \in 1..Len(to) :
                  /\ SentTo(r.trace[k], to[k], g[n].server_socket)
                  /\ r.trace[k].type = MSG_GAME_DATA
                  /\ r.trace[k].payload = StrPayload(StrNova)
                  /\ r.trace[k].sent <=> k \notin f
            /\ r.ret = Len(Transmitted(r.trace))

C30_TargetedAndFanOut ==
    \A n \in Node :
        g[n].server_socket # INVALID_SOCKET_VALUE =>
            \A f \in FanOutFails :
                /\ SendToAllOutcome(n, f)
                /\ \A id \in {Zero32, SomeId} \cup
                             {g[n].players[i].player_id : i \in 1..player_count(g[n])} :
                      SendToPlayerOutcome(n, id, f)

\* a host with two peers has fanned out: two sendto calls, in roster order,
\* to two different addresses, both successful
C30_Witness ==
    /\ last.op = "send_to_all" /\ last.node = Engine /\ last.ret = 2
    /\ player_count(g[Engine]) = 2
    /\ Len(trace) = 2
    /\ \A k \in 1..2 : SentTo(trace[k], g[Engine].players[k], g[Engine].server_socket)
    /\ <<trace[1].ip, trace[1].port>> # <<trace[2].ip, trace[2].port>>

(***************************************************************************)
(* C31: one network_update() takes at most one datagram from the session   *)
(* socket and at most one from the discovery socket, so it dispatches at   *)
(* most two messages, the session socket's first, and it sends at most one *)
(* discovery request; a queue of k datagrams holds at least k - 1 after    *)
(* the call, so it takes at least k calls to drain.                        *)
(***************************************************************************)
FromHead(ev, fd, n) ==
    /\ IsOpen(sockets, n, fd) /\ sockets[n][fd].inbox # <<>>
    /\ ev.ip = Head(sockets[n][fd].inbox).src_ip
    /\ ev.port = Head(sockets[n][fd].inbox).src_port
    /\ ev.type = ntohs(Head(sockets[n][fd].inbox).type)

BoundedWork(n) ==
    last'.op = "update" /\ last'.node = n =>
        /\ Len(Dispatched(trace')) <= 2
        /\ g'[n].messages_received <= g[n].messages_received + 2
        /\ \A fd \in Fds : Len(sockets'[n][fd].inbox) >= Len(sockets[n][fd].inbox) - 1
        /\ Len(Dispatched(trace')) = 2 =>
              /\ FromHead(Dispatched(trace')[1], g[n].server_socket, n)
              /\ FromHead(Dispatched(trace')[2], g[n].broadcast_socket, n)
        /\ Len(DiscoveryRequestsSent) <= 1

C31_BoundedWorkPerTick == [][\A n \in Node : BoundedWork(n)]_vars

\* an update of the host has dispatched two messages and left a backlog on
\* one of its sockets
C31_Witness ==
    /\ last.op = "update" /\ last.node = HostNode
    /\ Len(Dispatched(trace)) = 2
    /\ \E fd \in Fds : sockets[HostNode][fd].open /\ sockets[HostNode][fd].inbox # <<>>

(***************************************************************************)
(* C32: the state Error is never reached, and a session that is Hosting,   *)
(* Connecting or Connected stays in session on every step that is not its *)
(* own disconnect: Hosting stays Hosting, Connected stays Connected, and   *)
(* Connecting either stays or becomes Connected in an update that          *)
(* dispatches a join response.  No datagram, failed receive, failed send   *)
(* or tick of the clock ends a session.                                    *)
(***************************************************************************)
InSession == {NETWORK_STATE_HOSTING, NETWORK_STATE_CONNECTING, NETWORK_STATE_CONNECTED}

StaysInSession(n) ==
    /\ g'[n].state # NETWORK_STATE_ERROR
    /\ (g[n].state \in InSession /\ ~(last'.op = "disconnect" /\ last'.node = n)) =>
          \/ g'[n].state = g[n].state
          \/ /\ g[n].state = NETWORK_STATE_CONNECTING
             /\ g'[n].state = NETWORK_STATE_CONNECTED
             /\ last'.op = "update" /\ last'.node = n
             /\ \E i \in 1..Len(Dispatched(trace')) :
                   Dispatched(trace')[i].type = MSG_JOIN_RESPONSE

UpdateWhileDisconnected(n) ==
    (/\ last'.op = "update" /\ last'.node = n
     /\ g[n].state = NETWORK_STATE_DISCONNECTED) =>
        /\ trace' = <<>>
        /\ g' = g
        /\ sockets' = sockets
        /\ id_counter' = id_counter

C33_UpdateNoopWhenDisconnected == [][\A n \in Node : UpdateWhileDisconnected(n)]_vars

\* a Disconnected client has updated while a datagram waited on its open
\* discovery socket and its re-broadcast was due: the datagram still waits
C33_Witness ==
    /\ last.op = "update" /\ last.node = ClientNode
    /\ g[ClientNode].state = NETWORK_STATE_DISCONNECTED
    /\ IsOpen(sockets, ClientNode, g[ClientNode].broadcast_socket)
    /\ sockets[ClientNode][g[ClientNode].broadcast_socket].inbox # <<>>
    /\ Gt32(Sub32(get_timestamp(now), g[ClientNode].last_discovery_time),
            NETWORK_DISCOVERY_INTERVAL)

(***************************************************************************)
(* C34: dispatching a well-framed message whose type is player-list,       *)
(* game-start, ping, pong, game-state-sync, turn-data, error or a value    *)
(* outside the enum changes nothing but the receive statistics: no field   *)
(* of the context, no queue, no sendto, no handler, whichever handlers are *)
(* registered and whoever sent it.  So what send_game_state and            *)
(* send_turn_data send never reaches on_game_data.                         *)
(***************************************************************************)
UnhandledTypes ==
    {MSG_PLAYER_LIST, MSG_GAME_START, MSG_PING, MSG_PONG, MSG_GAME_STATE_SYNC,
     MSG_TURN_DATA, MSG_ERROR} \cup {0, MSG_ERROR + 1, U16 - 1}

Senders(n) ==
    {PeerA} \cup {<<g[n].players[i].ip_address, g[n].players[i].port>> :
                     i \in 1..player_count(g[n])}

\* _network_handle_message called with every handler registered
InertDispatch(n) ==
    \A ty \in UnhandledTypes, from \in Senders(n),
       p \in {NoPayload, StrPayload(StrNova), U32Payload(SomeId)} :
        \A r \in {network_handle_message(
                     [World(n, Quiet) EXCEPT !.cbs = CallbackNames,
                                             !.rx = [type |-> ty, size |-> PayloadSize(p),
                                                     data |-> p, from_ip |-> from[1],
                                                     from_port |-> from[2]]], n)} :
            /\ r.ctx = g[n]
            /\ r.net = sockets
            /\ r.counter = World(n, Quiet).counter
            /\ Len(r.trace) = 1 /\ r.trace[1].op = "dispatch"

InertUpdate(n) ==
    (/\ last'.op = "update" /\ last'.node = n
     /\ Dispatched(trace') # <<>>
     /\ \A i \in 1..Len(Dispatched(trace')) : Dispatched(trace')[i].type \in UnhandledTypes) =>
        /\ Sent(trace') = <<>>
        /\ Callbacks(trace') = <<>>
        /\ Dispatchable(g'[n]) = Dispatchable(g[n])
        /\ g'[n].messages_received = g[n].messages_received + Len(Dispatched(trace'))
        /\ \A m \in Node \ {n} : sockets'[m] = sockets[m]

C34_UnhandledTypesInert ==
    /\ [](\A n \in Node : InertDispatch(n))
    /\ [][\A n \in Node : InertUpdate(n)]_vars

\* a Connected client has dispatched the game-state-sync its host sent
C34_Witness ==
    /\ last.op = "update" /\ last.node = ClientNode
    /\ g[ClientNode].state = NETWORK_STATE_CONNECTED
    /\ Len(Dispatched(trace)) = 1
    /\ Dispatched(trace)[1].type = MSG_GAME_STATE_SYNC
    /\ Dispatched(trace)[1].data = StrPayload(StrNova)

(***************************************************************************)
(* C35: in every reachable state is_host is set exactly when the state is  *)
(* Hosting, and the roster is empty unless the state is Hosting.           *)
(***************************************************************************)
C35_RoleStateAgreement ==
    \A n \in Node :
        /\ g[n].is_host # 0 <=> g[n].state = NETWORK_STATE_HOSTING
        /\ g[n].players # <<>> => g[n].state = NETWORK_STATE_HOSTING

\* a Connected client has dispatched a join request and its roster is empty
C35_Witness ==
    /\ last.op = "update" /\ last.node = Engine
    /\ g[Engine].state = NETWORK_STATE_CONNECTED
    /\ g[Engine].is_host = 0
    /\ g[Engine].players = <<>>
    /\ \E i \in 1..Len(Dispatched(trace)) : Dispatched(trace)[i].type = MSG_JOIN_REQUEST

(***************************************************************************)
(* C36: whenever the state is Hosting the discovery handle is an open      *)
(* socket bound to the discovery port, whatever start_discovery,           *)
(* stop_discovery and broadcast_discovery calls were made while hosting.   *)
(***************************************************************************)
C36_HostStaysDiscoverable ==
    \A n \in Node :
        g[n].state = NETWORK_STATE_HOSTING =>
            /\ IsOpen(sockets, n, g[n].broadcast_socket)
            /\ sockets[n][g[n].broadcast_socket].port = NETWORK_BROADCAST_PORT

(***************************************************************************)
(* C37: a network_start_discovery() that gets its socket empties the       *)
(* registry and sets the time of the last broadcast to the current time,   *)
(* in whatever state it is called; network_get_discovered_games then       *)
(* returns nothing; the session state and the roster are not changed.      *)
(***************************************************************************)
StartResetsRegistry(n) ==
    (/\ last'.op = "start_discovery" /\ last'.node = n
     /\ g'[n].broadcast_socket # INVALID_SOCKET_VALUE) =>
        /\ network_get_discovered_games(g'[n], MAX_DISCOVERED_GAMES) = <<>>
        /\ discovered_game_count(g'[n]) = 0
        /\ g'[n].last_discovery_time = get_timestamp(now)
        /\ g'[n].state = g[n].state
        /\ g'[n].players = g[n].players

C37_StartDiscoveryResetsRegistry == [][\A n \in Node : StartResetsRegistry(n)]_vars

\* a Connecting engine that had recorded an advert has started discovery again,
\* after the clock advanced: its registry is empty
C37_Witness ==
    /\ last.op = "start_discovery" /\ last.node = Engine /\ last.ret = 1
    /\ g[Engine].state = NETWORK_STATE_CONNECTING
    /\ g[Engine].messages_received >= 1
    /\ g[Engine].errors = 0
    /\ g[Engine].discovered_games = <<>>
    /\ g[Engine].last_discovery_time = get_timestamp(T0 + 1)

(***************************************************************************)
(* C38: whenever the multiplayer menu is in MAIN, HOST_SETUP or JOIN_SETUP *)
(* the engine session is Disconnected; the menu is in LOBBY only while the *)
(* engine is Hosting, and in CONNECTING only while the engine is           *)
(* Connecting or Connected.                                                *)
(***************************************************************************)
MenuEngineAgree(m, ctx) ==
    /\ m.current_state \in {MP_MENU_MAIN, MP_MENU_HOST_SETUP, MP_MENU_JOIN_SETUP}
          => ctx.state = NETWORK_STATE_DISCONNECTED
    /\ m.current_state = MP_MENU_LOBBY => ctx.state = NETWORK_STATE_HOSTING
    /\ m.current_state = MP_MENU_CONNECTING
          => ctx.state \in {NETWORK_STATE_CONNECTING, NETWORK_STATE_CONNECTED}

C38_MenuEngineAgree == MenuEngineAgree(g_mp_menu, g[Engine])

(***************************************************************************)
(* C39: while hosting, the lobby list of the menu is the local host entry  *)
(* followed by exactly the peers of the engine roster, in the same order   *)
(* and with the same ids: lobby_player_count is the roster size plus one,  *)
(* and it never exceeds the 8 entries of its array.                        *)
(***************************************************************************)
LobbyMirrorsRoster(m, ctx) ==
    /\ m.lobby_player_count <= NETWORK_MAX_PLAYERS
    /\ m.lobby_player_count = player_count(ctx) + 1
    /\ m.lobby_players[1].host = 1
    /\ \A i \in 1..player_count(ctx) :
          /\ i + 1 \in LobbySlots
          /\ m.lobby_players[i + 1].player_id = ctx.players[i].player_id
          /\ m.lobby_players[i + 1].host = 0

C39_LobbyMirrorsRoster ==
    g[Engine].state = NETWORK_STATE_HOSTING /\ g_mp_menu.current_state = MP_MENU_LOBBY
        => LobbyMirrorsRoster(g_mp_menu, g[Engine])

====
